---- MODULE Spec2Model ----
(***************************************************************************)
(* RepoRanger: the static analyzer (src/tools/parser.py), the quality      *)
(* analyzer (src/agents/steward.py), the diagram renderer                  *)
(* (src/tools/diagram.py) and the workflow graph (src/graph.py) as a state *)
(* machine.                                                                *)
(*                                                                         *)
(* Representation.  A path is the sequence of its segments                 *)
(* (<<"pkg", "a.py">> is pkg/a.py); a path STRING as the program passes    *)
(* it around is [abs, p]: abs = TRUE is repo_root/p written absolutely,    *)
(* abs = FALSE is p written relative to the root.  A dotted name           *)
(* ("pkg.a") is the sequence of its identifiers; the empty sequence is     *)
(* None / "".  A Python dict is a sequence of [k, v] pairs in insertion    *)
(* order; a defaultdict(set) whose order is never observed is a function.  *)
(***************************************************************************)
EXTENDS Naturals, Integers, Sequences, FiniteSets, TLC

VARIABLES
    disk,                       \* the working tree: path -> source file or Absent
    edits,                      \* number of edits made to the working tree
    module_map,                 \* PythonCodeParser.module_map
    file_analyses,              \* PythonCodeParser.file_analyses
    dependency_graph,           \* PythonCodeParser.dependency_graph
    reverse_dependency_graph,   \* PythonCodeParser.reverse_dependency_graph
    stats,                      \* PythonCodeParser.stats
    ret,                        \* the call that has just returned and its value
    mode,                       \* RepoState: the mode of the workflow run
    pc,                         \* the node of the workflow graph the run is at
    executed,                   \* the nodes the run has executed, in order
    changed_files,              \* the changed Python files git reports
    code_issues,                \* RepoState: the issues steward found
    artifacts,                  \* RepoState: the artifact registry
    workspace,                  \* the files the nodes have written
    files_rendered,             \* the file paths a diagram is rendered for
    node_ids,                   \* the node identifiers the diagram gave them
    calls                       \* the calls under way: their local variables

parserVars == <<module_map, file_analyses, dependency_graph,
                reverse_dependency_graph, stats>>
runVars == <<mode, pc, executed, changed_files, code_issues, artifacts, workspace>>
diagramVars == <<files_rendered, node_ids>>
vars == <<disk, edits, module_map, file_analyses, dependency_graph,
          reverse_dependency_graph, stats, ret, mode, pc, executed, changed_files,
          code_issues, artifacts, workspace, files_rendered, node_ids, calls>>

\* ret while no call has just returned; else the operation that has, its
\* argument and the value it returned
NoCall == [op |-> "none", arg |-> <<>>, val |-> <<>>]

----------------------------------------------------------------------------
(* Bounds *)

\* edits of the working tree during one run
MaxEdits == 1
\* file analyses (parsed + failed) during one run
MaxAnalyses == 3

----------------------------------------------------------------------------
(* Python dicts and small helpers *)

Keys(d) == {d[i].k : i \in DOMAIN d}
Has(d, k) == \E i \in DOMAIN d : d[i].k = k
Get(d, k) == d[CHOOSE i \in DOMAIN d : d[i].k = k].v
Put(d, k, v) ==
    IF Has(d, k)
    THEN [i \in DOMAIN d |-> IF d[i].k = k THEN [k |-> k, v |-> v] ELSE d[i]]
    ELSE Append(d, [k |-> k, v |-> v])
KeyList(d) == [i \in DOMAIN d |-> d[i].k]

Range(s) == {s[i] : i \in DOMAIN s}
InSeq(s, x) == \E i \in DOMAIN s : s[i] = x
Index(s, x) == CHOOSE i \in DOMAIN s : s[i] = x /\ \A j \in 1..(i - 1) : s[j] # x

RECURSIVE Flatten(_)
Flatten(ss) ==
    IF ss = <<>> THEN <<>>
    ELSE IF Len(ss) = 1 THEN ss[1]
    ELSE Flatten(SubSeq(ss, 1, Len(ss) \div 2))
         \o Flatten(SubSeq(ss, Len(ss) \div 2 + 1, Len(ss)))

SelectSeqBy(s, S) == SelectSeq(s, LAMBDA x : x \in S)

----------------------------------------------------------------------------
(* The working tree *)

Rel(p) == [p |-> p, abs |-> FALSE]
Abs(p) == [p |-> p, abs |-> TRUE]

A_py == <<"a.py">>
B_py == <<"b.py">>
C_py == <<"c.py">>
PkgInit_py == <<"pkg", "__init__.py">>
PkgA_py == <<"pkg", "a.py">>
PkgB_py == <<"pkg", "b.py">>
Pkg_py == <<"pkg.py">>
VenvA_py == <<"venv", "a.py">>
Main_py == <<"main.py">>

\* os.walk is top-down: the root's files come before those of pkg/
WalkOrder ==
    <<A_py, B_py, C_py, Main_py, Pkg_py, PkgInit_py, PkgA_py, PkgB_py, VenvA_py>>
Paths == Range(WalkOrder)

\* Python's order on the relative path strings ('.' sorts before '/', '_' before 'a')
SortedOrder ==
    <<Rel(A_py), Rel(B_py), Rel(C_py), Rel(Main_py), Rel(Pkg_py), Rel(PkgInit_py),
      Rel(PkgA_py), Rel(PkgB_py), Rel(VenvA_py)>>
sorted(S) == SelectSeqBy(SortedOrder, S)

Absent == [kind |-> "absent"]
Exists(d, p) == d[p].kind # "absent"

\* str.replace('.py', '') on the file names of the tree
ReplacePy(name) ==
    CASE name = "a.py" -> "a"
      [] name = "b.py" -> "b"
      [] name = "c.py" -> "c"
      [] name = "__init__.py" -> "__init__"
      [] name = "pkg.py" -> "pkg"
      [] name = "main.py" -> "main"
      [] OTHER -> name

(* Source files, as the syntax tree ast.parse gives for them: the import   *)
(* nodes in ast.walk order and the identifiers referenced as a Name or as  *)
(* the base of an Attribute.                                               *)
Alias(name, asname) == [name |-> name, asname |-> asname]
Import(name) ==
    [node |-> "Import", module |-> <<>>, names |-> <<Alias(name, <<>>)>>,
     level |-> 0, parent |-> "Module"]
ImportFrom(module, names, level, parent) ==
    [node |-> "ImportFrom", module |-> module, names |-> names,
     level |-> level, parent |-> parent]

(* The other nodes of a syntax tree.  children are the child nodes in the  *)
(* order ast.iter_child_nodes gives them; n is len(values) of a BoolOp and *)
(* len(ifs) of a comprehension.                                            *)
Node(type, name, n, children) ==
    [name |-> name, type |-> type, n |-> n, children |-> children]
Pass == Node("Pass", "", 0, <<>>)
Name == Node("Name", "", 0, <<>>)
Expr(value) == Node("Expr", "", 0, <<value>>)
BoolOp(values) == Node("BoolOp", "", Len(values), values)
comprehension(ifs) == Node("comprehension", "", Len(ifs), <<Name, Name>> \o ifs)
ListComp(generators) == Node("ListComp", "", 0, <<Name>> \o generators)
If(test, body) == Node("If", "", 0, <<test>> \o body)
While(test, body) == Node("While", "", 0, <<test>> \o body)
For(body) == Node("For", "", 0, <<Name, Name>> \o body)
AsyncFor(body) == Node("AsyncFor", "", 0, <<Name, Name>> \o body)
With(body) == Node("With", "", 0, <<Name>> \o body)
ExceptHandler(body) == Node("ExceptHandler", "", 0, body)
Try(body, handlers) == Node("Try", "", 0, body \o handlers)
FunctionDef(name, body) == Node("FunctionDef", name, 0, body)
AsyncFunctionDef(name, body) == Node("AsyncFunctionDef", name, 0, body)
ClassDef(name, body) == Node("ClassDef", name, 0, body)
Module(body) == Node("Module", "", 0, body)

\* a source file of imports, referenced names and definitions
SourceWith(imports, names, body) ==
    [kind |-> "ok", names |-> names, body |-> body, imports |-> imports]
\* a source file that defines nothing
Source(imports, names) == SourceWith(imports, names, <<>>)

\* def f(): pass
SrcPlain == SourceWith(<<>>, {}, <<FunctionDef("f", <<Pass>>)>>)
\* import a / a.f()
SrcImportA == Source(<<Import(<<"a">>)>>, {<<"a">>})
SrcImportB == Source(<<Import(<<"b">>)>>, {<<"b">>})
SrcImportC == Source(<<Import(<<"c">>)>>, {<<"c">>})
\* import a / import c / a.f(); c.f()
SrcImportAC == Source(<<Import(<<"a">>), Import(<<"c">>)>>, {<<"a">>, <<"c">>})
\* import a / import b / a.f(); b.f()
SrcImportAB == Source(<<Import(<<"a">>), Import(<<"b">>)>>, {<<"a">>, <<"b">>})
\* import b / import c / b.f(); c.f()
SrcImportBC == Source(<<Import(<<"b">>), Import(<<"c">>)>>, {<<"b">>, <<"c">>})
\* import os / from . import b / b.f()
SrcScenario ==
    Source(<<Import(<<"os">>),
             ImportFrom(<<>>, <<Alias(<<"b">>, <<>>)>>, 1, "Module")>>, {<<"b">>})
\* a file ast.parse rejects with SyntaxError
SrcSyntaxError == [kind |-> "syntax_error", names |-> {}, imports |-> <<>>]
\* a file ast.parse rejects with ValueError (null bytes)
SrcNullBytes == [kind |-> "value_error", names |-> {}, imports |-> <<>>]
\* def f(): pass, in a file of more than max_file_size bytes
SrcLarge == [kind |-> "large", names |-> {}, imports |-> <<>>]

\* a working tree of three files at the root, or of one package
RootTree(sa, sb, sc) ==
    [p \in Paths |-> IF p = A_py THEN sa
                     ELSE IF p = B_py THEN sb
                     ELSE IF p = C_py THEN sc
                     ELSE Absent]
MainTree(sm, sa, sb) ==
    [p \in Paths |-> IF p = Main_py THEN sm
                     ELSE IF p = A_py THEN sa
                     ELSE IF p = B_py THEN sb
                     ELSE Absent]
PkgTree(init, sa, sb) ==
    [p \in Paths |-> IF p = PkgInit_py THEN init
                     ELSE IF p = PkgA_py THEN sa
                     ELSE IF p = PkgB_py THEN sb
                     ELSE Absent]

----------------------------------------------------------------------------
(* PythonCodeParser *)

\* _path_to_module: <<>> is None
_path_to_module(p) ==
    LET parts == [i \in 1..Len(p) |-> IF i = Len(p) THEN ReplacePy(p[i]) ELSE p[i]]
        parts2 == IF parts[Len(parts)] = "__init__"
                  THEN SubSeq(parts, 1, Len(parts) - 1) ELSE parts
    IN  parts2

\* _should_ignore: of the default ignore patterns only 'venv' and 'env' occur
\* in a name of this tree
_should_ignore(p) == \E i \in DOMAIN p : p[i] = "venv"

\* _index_repository: the module map and total_files, in os.walk order
RECURSIVE index_walk(_, _, _)
index_walk(d, i, acc) ==
    IF i > Len(WalkOrder) THEN acc
    ELSE LET p == WalkOrder[i]
             module_name == _path_to_module(p)
         IN  IF ~Exists(d, p) \/ _should_ignore(p) \/ d[p].kind = "large"
             THEN index_walk(d, i + 1, acc)
             ELSE index_walk(d, i + 1,
                    [module_map |-> IF module_name # <<>>
                                    THEN Put(acc.module_map, module_name, p)
                                    ELSE acc.module_map,
                     total_files |-> acc.total_files + 1])
_index_repository(d) == index_walk(d, 1, [module_map |-> <<>>, total_files |-> 0])

\* __init__: a parser freshly constructed over the working tree d
NewParser(d) ==
    LET idx == _index_repository(d)
    IN  [module_map |-> idx.module_map,
         file_analyses |-> <<>>,
         dependency_graph |-> <<>>,
         reverse_dependency_graph |-> <<>>,
         stats |-> [total_files |-> idx.total_files, parsed_files |-> 0,
                    failed_files |-> 0, total_imports |-> 0]]

\* _extract_imports: the ImportStatements of one import node
ImportStatements(node) ==
    IF node.node = "Import"
    THEN [i \in DOMAIN node.names |->
            LET alias == node.names[i]
            IN  [module |-> alias.name,
                 names |-> <<alias.name>>,
                 aliases |-> IF alias.asname # <<>> THEN <<alias>> ELSE <<>>,
                 level |-> 0,
                 import_type |-> IF alias.asname # <<>> THEN "aliased" ELSE "absolute",
                 is_future_import |-> FALSE,
                 parent_node_type |-> "None"]]
    ELSE LET names == [i \in DOMAIN node.names |-> node.names[i].name]
             aliases == SelectSeq(node.names, LAMBDA n : n.asname # <<>>)
             conditional == node.parent \in {"If", "Try"}
             import_type ==
                 IF conditional THEN "conditional"
                 ELSE IF node.level > 0 THEN "relative"
                 ELSE IF InSeq(names, <<"*">>) THEN "wildcard"
                 ELSE IF aliases # <<>> THEN "aliased"
                 ELSE "absolute"
         IN  <<[module |-> node.module,
                names |-> names,
                aliases |-> aliases,
                level |-> node.level,
                import_type |-> import_type,
                is_future_import |-> (node.module = <<"__future__">>),
                parent_node_type |-> IF conditional THEN node.parent ELSE "None"]>>

_extract_imports(tree) ==
    Flatten([i \in DOMAIN tree.imports |-> ImportStatements(tree.imports[i])])

\* the wildcard warnings _extract_imports appends
WildcardWarnings(imports) ==
    SelectSeq(imports, LAMBDA imp : InSeq(imp.names, <<"*">>) /\ ~imp.is_future_import)

\* _resolve_import, attempt 3: the first imported name that is a submodule
RECURSIVE resolve_names(_, _, _, _)
resolve_names(mm, target_module, names, i) ==
    IF i > Len(names) THEN <<>>
    ELSE IF names[i] = <<"*">> THEN resolve_names(mm, target_module, names, i + 1)
    ELSE IF Has(mm, target_module \o names[i]) THEN Get(mm, target_module \o names[i])
    ELSE resolve_names(mm, target_module, names, i + 1)

\* as lookup_module, had lines 672-682 tried the imported names before the
\* package's init module
lookup_module_names_first(mm, target_module, names) ==
    IF Has(mm, target_module) THEN Get(mm, target_module)
    ELSE IF resolve_names(mm, target_module, names, 1) # <<>>
         THEN resolve_names(mm, target_module, names, 1)
    ELSE IF Has(mm, target_module \o <<"__init__">>)
         THEN Get(mm, target_module \o <<"__init__">>)
    ELSE <<>>

\* the lookup of _resolve_import against the module map
lookup_module(mm, target_module, names) ==
    IF Has(mm, target_module) THEN Get(mm, target_module)
    ELSE IF Has(mm, target_module \o <<"__init__">>)
         THEN Get(mm, target_module \o <<"__init__">>)
    ELSE resolve_names(mm, target_module, names, 1)

\* as base_package, had line 650 dropped one segment fewer
base_package_short(parts, level) == SubSeq(parts, 1, Len(parts) - level + 1)

\* lines 647-650: "" when level == len(parts), else '.'.join(parts[:-level])
base_package(parts, level) ==
    IF level = Len(parts) THEN <<>> ELSE SubSeq(parts, 1, Len(parts) - level)

\* _resolve_import: the path of the file an import names, <<>> when unresolved
_resolve_import(mm, imp, current_module) ==
    IF imp.level > 0
    THEN IF current_module = <<>> THEN <<>>
         ELSE LET parts == current_module IN
              IF imp.level > Len(parts) THEN <<>>
              ELSE LET base == base_package(parts, imp.level)
                   IN  IF base # <<>> /\ imp.module # <<>>
                       THEN lookup_module(mm, base \o imp.module, imp.names)
                       ELSE IF base # <<>> THEN lookup_module(mm, base, imp.names)
                       ELSE IF imp.module # <<>> THEN lookup_module(mm, imp.module, imp.names)
                       ELSE <<>>
    ELSE IF imp.module = <<>> THEN <<>>
         ELSE lookup_module(mm, imp.module, imp.names)

\* as dependencies_of, had line 623 not left the file's own path out
dependencies_of_with_self(file_path, resolved) ==
    {Rel(resolved[i]) : i \in {j \in DOMAIN resolved : resolved[j] # <<>>}}

\* lines 617-626: the resolved paths, relative to the root, but for the file's own
dependencies_of(file_path, resolved) ==
    {Rel(resolved[i]) :
        i \in {j \in DOMAIN resolved :
                 resolved[j] # <<>> /\ Rel(resolved[j]) # file_path}}

\* _resolve_dependencies: the dependency set of an analysis
_resolve_dependencies(mm, file_path, module_name, imports) ==
    IF module_name = <<>> THEN {}
    ELSE dependencies_of(file_path,
             [i \in DOMAIN imports |-> _resolve_import(mm, imports[i], module_name)])

\* ast.walk: the nodes of a subtree, breadth first; the queue holds the nodes
\* of one depth, which come out before their children are queued behind them
RECURSIVE walk_queue(_)
walk_queue(todo) ==
    IF todo = <<>> THEN <<>>
    ELSE todo \o walk_queue(Flatten([i \in DOMAIN todo |-> todo[i].children]))
ast_walk(node) == walk_queue(<<node>>)

RECURSIVE Sum(_)
Sum(s) ==
    IF s = <<>> THEN 0
    ELSE IF Len(s) = 1 THEN s[1]
    ELSE Sum(SubSeq(s, 1, Len(s) \div 2)) + Sum(SubSeq(s, Len(s) \div 2 + 1, Len(s)))

\* as boolop_points, had line 527 counted every operand
boolop_points_operands(child) == child.n

\* line 527: len(child.values) - 1
boolop_points(child) == child.n - 1

\* lines 522-531: what one node adds to the complexity
decision_points(child) ==
    IF child.type \in {"If", "While", "For", "AsyncFor"} THEN 1
    ELSE IF child.type = "ExceptHandler" THEN 1
    ELSE IF child.type = "BoolOp" THEN boolop_points(child)
    ELSE IF child.type = "comprehension" THEN 1 + child.n
    ELSE 0

_calculate_cyclomatic_complexity(node) ==
    LET children == ast_walk(node)
    IN  1 + Sum([i \in DOMAIN children |-> decision_points(children[i])])

is_function(node) == node.type \in {"FunctionDef", "AsyncFunctionDef"}

\* _extract_functions: a FunctionInfo for every function node of the tree
_extract_functions(tree) ==
    LET nodes == SelectSeq(ast_walk(tree), is_function)
    IN  [i \in DOMAIN nodes |->
            [name |-> nodes[i].name,
             complexity |-> _calculate_cyclomatic_complexity(nodes[i])]]

\* _extract_classes: a ClassInfo for every class node of the tree
_extract_classes(tree) ==
    LET nodes == SelectSeq(ast_walk(tree), LAMBDA node : node.type = "ClassDef")
    IN  [i \in DOMAIN nodes |->
            LET methods == SelectSeq(nodes[i].children, is_function)
            IN  [name |-> nodes[i].name,
                 methods |-> [j \in DOMAIN methods |-> methods[j].name]]]

Max(S) == CHOOSE m \in S : \A x \in S : m >= x

\* _calculate_complexity.get_nesting_depth: the deepest depth below node
RECURSIVE get_nesting_depth(_, _)
get_nesting_depth(node, depth) ==
    Max({depth} \cup
        {get_nesting_depth(node.children[i],
             IF node.children[i].type \in {"If", "For", "While", "With", "Try"}
             THEN depth + 1 ELSE depth) : i \in DOMAIN node.children})

\* _calculate_complexity: the two metrics it sets
_calculate_complexity(tree) ==
    LET nodes == SelectSeq(ast_walk(tree), is_function)
    IN  [cyclomatic_complexity |->
             Sum([i \in DOMAIN nodes |-> _calculate_cyclomatic_complexity(nodes[i])]),
         max_nesting_depth |-> get_nesting_depth(tree, 0)]

FileAnalysis(rel_path) ==
    [file_path |-> rel_path, module_name |-> <<>>, imports |-> <<>>,
     dependencies |-> {}, errors |-> <<>>, warnings |-> <<>>,
     ast_tree |-> [kind |-> "none"],
     functions |-> <<>>, classes |-> <<>>,
     metrics |-> [cyclomatic_complexity |-> 0, max_nesting_depth |-> 0]]

\* line 326: the analysis is cached under the relative path and returned
cache_analysis(ps, rel_path, a, st) ==
    [ps |-> [ps EXCEPT !.file_analyses = Put(@, rel_path, a), !.stats = st],
     val |-> a]

\* lines 299-316: the analysis of a file that parsed, its imports extracted
analyze_parsed(ps, analysis, module_name, src, imports) ==
    cache_analysis(ps, analysis.file_path,
        [analysis EXCEPT
           !.module_name = module_name,
           !.ast_tree = src,
           !.imports = imports,
           !.functions = _extract_functions(Module(src.body)),
           !.classes = _extract_classes(Module(src.body)),
           !.metrics = _calculate_complexity(Module(src.body)),
           !.warnings = [i \in DOMAIN WildcardWarnings(imports) |-> "Wildcard import"],
           !.dependencies =
               _resolve_dependencies(ps.module_map, analysis.file_path, module_name,
                                     imports)],
        [ps.stats EXCEPT !.total_imports = @ + Len(imports),
                         !.parsed_files = @ + 1])

\* lines 318-324: the analysis of a file that did not parse
analyze_failed(ps, analysis, module_name, error) ==
    cache_analysis(ps, analysis.file_path,
        [analysis EXCEPT !.module_name = module_name, !.errors = <<error>>],
        [ps.stats EXCEPT !.failed_files = @ + 1])

\* analyze_file: the parser afterwards and the FileAnalysis returned
analyze_file(ps, d, file_path) ==
    IF ~Exists(d, file_path.p)
    THEN [ps |-> [ps EXCEPT !.stats.failed_files = @ + 1],
          val |-> [FileAnalysis(Rel(file_path.p)) EXCEPT !.errors = <<"File not found">>]]
    ELSE IF d[file_path.p].kind = "syntax_error"
    THEN analyze_failed(ps, FileAnalysis(Rel(file_path.p)),
                        _path_to_module(file_path.p), "Syntax error")
    ELSE IF d[file_path.p].kind = "value_error"
    THEN analyze_failed(ps, FileAnalysis(Rel(file_path.p)),
                        _path_to_module(file_path.p), "Analysis error")
    ELSE analyze_parsed(ps, FileAnalysis(Rel(file_path.p)),
                        _path_to_module(file_path.p), d[file_path.p],
                        _extract_imports(d[file_path.p]))

\* as add_dependent, had line 714 assigned the entry instead of adding to it
add_dependent_assigned(dependents, file_path) == {file_path}

\* line 714, reverse_dependency_graph[dep].add(file_path): the new entry of dep
add_dependent(dependents, file_path) == dependents \cup {file_path}

\* lines 712-714: the forward entry is assigned, the reverse entries are added to
update_graphs(ps, file_path, dependencies) ==
    LET r == ps.reverse_dependency_graph
    IN  [ps EXCEPT
           !.dependency_graph = Put(@, file_path, dependencies),
           !.reverse_dependency_graph =
               [dep \in DOMAIN r \cup dependencies |->
                  IF dep \in dependencies
                  THEN add_dependent(IF dep \in DOMAIN r THEN r[dep] ELSE {}, file_path)
                  ELSE r[dep]]]

\* get_dependency_graph, the loop over files from index i on; ps1 is the
\* parser once files[i] has an analysis, if it can have one
RECURSIVE build_graph(_, _, _, _, _), build_graph_entry(_, _, _, _, _)
build_graph_entry(ps1, d, files, i, graph) ==
    IF Has(ps1.file_analyses, files[i])
    THEN build_graph(update_graphs(ps1, files[i],
                                   Get(ps1.file_analyses, files[i]).dependencies),
                     d, files, i + 1,
                     Put(graph, files[i],
                         sorted(Get(ps1.file_analyses, files[i]).dependencies)))
    ELSE build_graph(ps1, d, files, i + 1, graph)
build_graph(ps, d, files, i, graph) ==
    IF i > Len(files) THEN [ps |-> ps, val |-> graph]
    ELSE IF ~Has(ps.file_analyses, files[i])
         THEN build_graph_entry(analyze_file(ps, d, files[i]).ps, d, files, i, graph)
    ELSE build_graph_entry(ps, d, files, i, graph)

\* get_dependency_graph(files): arg.none is files = None
get_dependency_graph(ps, d, arg) ==
    build_graph(ps, d, IF arg.none THEN KeyList(ps.file_analyses) ELSE arg.files, 1, <<>>)

(* find_circular_dependencies.  A Python set is iterated in an order the  *)
(* program does not control, so find_cycle is the set of the outcomes it  *)
(* can have: what it returns (<<>> is None), and visited and rec_stack,   *)
(* which it mutates in place, as it leaves them.                          *)
\* as cycle_slice, had lines 737-739 returned the whole path
cycle_slice_whole(path, neighbor) == path \o <<neighbor>>

\* lines 737-739: path[path.index(neighbor):] + [neighbor]
cycle_slice(path, neighbor) ==
    SubSeq(path, Index(path, neighbor), Len(path)) \o <<neighbor>>

\* as on_stack, had line 735 never seen a back edge
on_stack_never(neighbor, rec_stack) == FALSE

\* line 736: elif neighbor in rec_stack
on_stack(neighbor, rec_stack) == neighbor \in rec_stack

RECURSIVE find_cycle(_, _, _, _, _), find_cycle_neighbors(_, _, _, _, _, _)
find_cycle(dg, node, path, visited, rec_stack) ==
    LET visited1 == visited \cup {node}
        rec_stack1 == rec_stack \cup {node}
        path1 == Append(path, node)
    IN  IF Has(dg, node)
        THEN find_cycle_neighbors(dg, node, path1, Get(dg, node), visited1, rec_stack1)
        ELSE {[result |-> <<>>, visited |-> visited1, rec_stack |-> rec_stack1 \ {node}]}

\* the loop over the neighbors of node still to come, todo
find_cycle_neighbors(dg, node, path, todo, visited, rec_stack) ==
    IF todo = {}
    THEN {[result |-> <<>>, visited |-> visited, rec_stack |-> rec_stack \ {node}]}
    ELSE UNION {
           IF neighbor \notin visited
           THEN UNION {
                  IF o.result # <<>> THEN {o}
                  ELSE find_cycle_neighbors(dg, node, path, todo \ {neighbor},
                                            o.visited, o.rec_stack)
                  : o \in find_cycle(dg, neighbor, path, visited, rec_stack)}
           ELSE IF on_stack(neighbor, rec_stack)
           THEN {[result |-> cycle_slice(path, neighbor),
                  visited |-> visited, rec_stack |-> rec_stack]}
           ELSE find_cycle_neighbors(dg, node, path, todo \ {neighbor}, visited, rec_stack)
           : neighbor \in todo}

\* as all_roots_visited, had the search from each key started with no file visited
all_roots_visited_fresh(visited) == {}

\* lines 744-749: visited is one set, shared by the searches from all keys
all_roots_visited(visited) == visited

\* the loop over the keys of the forward map, in insertion order
RECURSIVE find_cycles_from(_, _, _, _)
find_cycles_from(dg, i, visited, cycles) ==
    IF i > Len(dg) THEN {cycles}
    ELSE LET node == dg[i].k
         IN  IF node \in visited THEN find_cycles_from(dg, i + 1, visited, cycles)
             ELSE UNION {
                    find_cycles_from(dg, i + 1, o.visited,
                        IF o.result # <<>> /\ ~InSeq(cycles, o.result)
                        THEN Append(cycles, o.result) ELSE cycles)
                    : o \in find_cycle(dg, node, <<>>, all_roots_visited(visited), {})}

\* find_circular_dependencies: the lists of cycles it can return
find_circular_dependencies(dg) == find_cycles_from(dg, 1, {}, <<>>)

\* find_unused_imports: the imports that bind no used name
unused_imports(analysis) ==
    LET used_names == analysis.ast_tree.names
        imported_names(imp) ==
            Range(imp.names) \cup {imp.aliases[i].asname : i \in DOMAIN imp.aliases}
    IN  SelectSeq(analysis.imports,
                  LAMBDA imp : /\ ~InSeq(imp.names, <<"*">>)
                               /\ imported_names(imp) \cap used_names = {})

\* lines 768-796, once the file has an analysis if it can have one
unused_of_cached(ps1, file_path) ==
    IF ~Has(ps1.file_analyses, file_path) THEN [ps |-> ps1, val |-> <<>>]
    ELSE IF Get(ps1.file_analyses, file_path).ast_tree.kind = "none"
         THEN [ps |-> ps1, val |-> <<>>]
    ELSE [ps |-> ps1, val |-> unused_imports(Get(ps1.file_analyses, file_path))]

find_unused_imports(ps, d, file_path) ==
    IF ~Has(ps.file_analyses, file_path)
    THEN unused_of_cached(analyze_file(ps, d, file_path).ps, file_path)
    ELSE unused_of_cached(ps, file_path)

\* as transitive_only, had line 836 kept the direct dependents in
transitive_with_direct(transitive, direct) == transitive

\* line 836: transitive - direct
transitive_only(transitive, direct) == transitive \ direct

\* get_file_impact_analysis, the while loop; list(a set) is taken in sorted
\* order, the set the loop ends with does not depend on it
RECURSIVE impact_loop(_, _, _, _)
impact_loop(r, to_visit, visited, transitive) ==
    IF to_visit = <<>> THEN transitive
    ELSE LET current == to_visit[Len(to_visit)]
             rest == SubSeq(to_visit, 1, Len(to_visit) - 1)
         IN  IF current \in visited THEN impact_loop(r, rest, visited, transitive)
             ELSE impact_loop(r,
                      IF current \in DOMAIN r THEN rest \o sorted(r[current]) ELSE rest,
                      visited \cup {current}, transitive \cup {current})

get_file_impact_analysis(r, file_path) ==
    IF file_path \notin DOMAIN r
    THEN [file |-> file_path, direct_dependents |-> <<>>,
          transitive_dependents |-> <<>>, total_impact |-> 0]
    ELSE LET direct == r[file_path]
             transitive == impact_loop(r, sorted(direct), {}, {})
         IN  [file |-> file_path,
              direct_dependents |-> sorted(direct),
              transitive_dependents |-> sorted(transitive_only(transitive, direct)),
              total_impact |-> Cardinality(transitive)]

----------------------------------------------------------------------------
(* The parser in use: one instance over a working tree that can change *)


\* no workflow run and no diagram: the parser is used on its own
NoRun ==
    /\ mode = "none" /\ pc = "none" /\ executed = <<>> /\ changed_files = <<>>
    /\ code_issues = <<>> /\ artifacts = <<>> /\ workspace = <<>>
NoDiagram == files_rendered = <<>> /\ node_ids = <<>>

Parser == [module_map |-> module_map, file_analyses |-> file_analyses,
           dependency_graph |-> dependency_graph,
           reverse_dependency_graph |-> reverse_dependency_graph, stats |-> stats]

SetParser(ps) ==
    /\ module_map' = ps.module_map
    /\ file_analyses' = ps.file_analyses
    /\ dependency_graph' = ps.dependency_graph
    /\ reverse_dependency_graph' = ps.reverse_dependency_graph
    /\ stats' = ps.stats

Analyses(st) == st.parsed_files + st.failed_files

\* the files the run knows: those the index recorded
Known == {Get(module_map, m) : m \in Keys(module_map)}
\* the file the developer is working on; callers name it either way
Edited == A_py
PathArgs == {Rel(p) : p \in Known} \cup {Abs(Edited)}

\* file lists as git lists them, sorted relative paths, or one absolute path
FileLists ==
    {sorted(S) : S \in SUBSET {Rel(p) : p \in Known} \ {{}}} \cup {<<Abs(Edited)>>}
GraphArgs == {[files |-> <<>>, none |-> TRUE]}
             \cup {[files |-> fs, none |-> FALSE] : fs \in FileLists}

\* three files at the root that import each other
RootTrees ==
    {[p \in Paths |-> IF p = A_py THEN SrcImportB
                      ELSE IF p = B_py THEN sb
                      ELSE IF p = C_py THEN sc
                      ELSE Absent] :
        sb \in {SrcImportAC}, sc \in {SrcImportB, SrcSyntaxError}}

\* the scenario of two siblings, at the root, in a directory, in a package
ScenarioTrees ==
    {[p \in Paths |-> IF p = A_py THEN SrcScenario
                      ELSE IF p = B_py THEN SrcPlain ELSE Absent]}
    \cup {[p \in Paths |-> IF p = PkgA_py THEN SrcScenario
                           ELSE IF p = PkgB_py THEN SrcPlain
                           ELSE IF p = PkgInit_py THEN init
                           ELSE Absent] : init \in {Absent, SrcPlain}}

\* what an edit can leave in a file
EditSources == {SrcImportC, SrcNullBytes}

Init ==
    /\ disk \in RootTrees \cup ScenarioTrees
    /\ edits = 0
    /\ module_map = NewParser(disk).module_map
    /\ file_analyses = NewParser(disk).file_analyses
    /\ dependency_graph = NewParser(disk).dependency_graph
    /\ reverse_dependency_graph = [dep \in {} |-> {}]
    /\ stats = NewParser(disk).stats
    /\ ret = NoCall
    /\ NoRun
    /\ NoDiagram
    /\ calls = <<>>

AnalyzeFile(file_path) ==
    LET r == analyze_file(Parser, disk, file_path)
    IN  /\ ret = NoCall
        /\ Analyses(r.ps.stats) <= MaxAnalyses
        /\ SetParser(r.ps)
        /\ ret' = [op |-> "analyze_file", arg |-> file_path, val |-> r.val]
        /\ UNCHANGED <<disk, edits, runVars, diagramVars, calls>>

GetDependencyGraph(arg) ==
    LET r == get_dependency_graph(Parser, disk, arg)
    IN  /\ ret = NoCall
        /\ Analyses(r.ps.stats) <= MaxAnalyses
        /\ SetParser(r.ps)
        /\ ret' = [op |-> "get_dependency_graph", arg |-> arg, val |-> r.val]
        /\ UNCHANGED <<disk, edits, runVars, diagramVars, calls>>

FindCircularDependencies ==
    /\ ret = NoCall
    /\ \E cycles \in find_circular_dependencies(dependency_graph) :
          ret' = [op |-> "find_circular_dependencies", arg |-> <<>>, val |-> cycles]
    /\ UNCHANGED <<disk, edits, parserVars, runVars, diagramVars, calls>>

FindUnusedImports(file_path) ==
    LET r == find_unused_imports(Parser, disk, file_path)
    IN  /\ ret = NoCall
        /\ Analyses(r.ps.stats) <= MaxAnalyses
        /\ SetParser(r.ps)
        /\ ret' = [op |-> "find_unused_imports", arg |-> file_path, val |-> r.val]
        /\ UNCHANGED <<disk, edits, runVars, diagramVars, calls>>

GetFileImpactAnalysis(file_path) ==
    /\ ret = NoCall
    /\ ret' = [op |-> "get_file_impact_analysis", arg |-> file_path,
               val |-> get_file_impact_analysis(reverse_dependency_graph, file_path)]
    /\ UNCHANGED <<disk, edits, parserVars, runVars, diagramVars, calls>>

\* the developer saves a file of the working tree
WriteFile(p, src) ==
    /\ ret = NoCall
    /\ p \in Known
    /\ edits < MaxEdits
    /\ src # disk[p]
    /\ disk' = [disk EXCEPT ![p] = src]
    /\ edits' = edits + 1
    /\ UNCHANGED <<parserVars, ret, runVars, diagramVars, calls>>

\* the developer deletes a file of the working tree
DeleteFile(p) ==
    /\ ret = NoCall
    /\ p \in Known
    /\ edits < MaxEdits
    /\ Exists(disk, p)
    /\ disk' = [disk EXCEPT ![p] = Absent]
    /\ edits' = edits + 1
    /\ UNCHANGED <<parserVars, ret, runVars, diagramVars, calls>>

\* the caller takes the returned value; the next call can start
Return ==
    /\ ret # NoCall
    /\ ret' = NoCall
    /\ UNCHANGED <<disk, edits, parserVars, runVars, diagramVars, calls>>

Next ==
    \/ \E f \in PathArgs : AnalyzeFile(f)
    \/ \E arg \in GraphArgs : GetDependencyGraph(arg)
    \/ FindCircularDependencies
    \/ \E f \in PathArgs : FindUnusedImports(f)
    \/ \E f \in PathArgs : GetFileImpactAnalysis(f)
    \/ \E src \in EditSources : WriteFile(Edited, src)
    \/ DeleteFile(Edited)
    \/ Return

Spec == Init /\ [][Next]_vars

----------------------------------------------------------------------------
(* The construction of a parser over a working tree *)

\* the files a directory tree can hold: plain files, some of them too large
IndexTrees == [Paths -> {Absent, SrcPlain, SrcLarge}]

\* before PythonCodeParser(repo_root) is called
InitIndex ==
    /\ disk \in IndexTrees
    /\ edits = 0
    /\ module_map = <<>>
    /\ file_analyses = <<>>
    /\ dependency_graph = <<>>
    /\ reverse_dependency_graph = [dep \in {} |-> {}]
    /\ stats = [total_files |-> 0, parsed_files |-> 0, failed_files |-> 0,
                total_imports |-> 0]
    /\ ret = NoCall
    /\ NoRun
    /\ NoDiagram
    /\ calls = <<>>

\* __init__, which indexes the repository
Construct ==
    /\ ret = NoCall
    /\ SetParser(NewParser(disk))
    /\ ret' = [op |-> "__init__", arg |-> <<>>, val |-> <<>>]
    /\ UNCHANGED <<disk, edits, runVars, diagramVars, calls>>

NextIndex == Construct

SpecIndex == InitIndex /\ [][NextIndex]_vars

----------------------------------------------------------------------------
(* The graph queries over three files that import each other at will *)

RootFiles == {Rel(A_py), Rel(B_py), Rel(C_py)}

\* a.py, b.py and c.py, each importing any of the other two
GraphTrees ==
    {RootTree(sa, sb, sc) :
        sa \in {SrcPlain, SrcImportB, SrcImportC, SrcImportBC},
        sb \in {SrcPlain, SrcImportA, SrcImportC, SrcImportAC},
        sc \in {SrcPlain, SrcImportA, SrcImportB, SrcImportAB}}

\* the lists of distinct files a caller can pass, in any order
OrderedFileLists ==
    {fs \in UNION {[1..n -> RootFiles] : n \in 1..3} :
        \A i, j \in DOMAIN fs : i # j => fs[i] # fs[j]}

InitGraph ==
    /\ disk \in GraphTrees
    /\ edits = 0
    /\ module_map = NewParser(disk).module_map
    /\ file_analyses = NewParser(disk).file_analyses
    /\ dependency_graph = NewParser(disk).dependency_graph
    /\ reverse_dependency_graph = [dep \in {} |-> {}]
    /\ stats = NewParser(disk).stats
    /\ ret = NoCall
    /\ NoRun
    /\ NoDiagram
    /\ calls = <<>>

NextGraph ==
    \/ \E fs \in OrderedFileLists : GetDependencyGraph([files |-> fs, none |-> FALSE])
    \/ FindCircularDependencies
    \/ \E f \in RootFiles : GetFileImpactAnalysis(f)
    \/ Return

SpecGraph == InitGraph /\ [][NextGraph]_vars

----------------------------------------------------------------------------
(* The resolution of imports in a tree of nested directories: every        *)
(* directory down to depth MaxDepth holds a.py and b.py and, above that    *)
(* depth, the directories a and b.                                         *)

MaxDepth == 3

\* os.walk from directory dir at depth n: its files, then its directories
RECURSIVE DeepWalk(_, _)
DeepWalk(dir, n) ==
    <<dir \o <<"a.py">>, dir \o <<"b.py">>>>
    \o (IF n < MaxDepth
        THEN DeepWalk(dir \o <<"a">>, n + 1) \o DeepWalk(dir \o <<"b">>, n + 1)
        ELSE <<>>)
DeepPaths == DeepWalk(<<>>, 1)
DeepTree == [p \in Range(DeepPaths) |-> SrcPlain]

\* _index_repository over the nested tree: module_map[module_name] = path
RECURSIVE index_deep(_, _)
index_deep(i, acc) ==
    IF i > Len(DeepPaths) THEN acc
    ELSE index_deep(i + 1, Put(acc, _path_to_module(DeepPaths[i]), DeepPaths[i]))
DeepModuleMap == index_deep(1, <<>>)

\* the dotted names of the modules of the tree
DeepModules == Keys(DeepModuleMap)

\* from <level dots><module> import a / from <level dots><module> import *
RelativeImports ==
    {ImportStatements(ImportFrom(module, <<Alias(name, <<>>)>>, level, "Module"))[1] :
        module \in {<<>>, <<"a">>, <<"b">>},
        name \in {<<"a">>, <<"*">>},
        level \in 0..(MaxDepth + 1)}

InitResolve ==
    /\ disk = DeepTree
    /\ edits = 0
    /\ module_map = DeepModuleMap
    /\ file_analyses = <<>>
    /\ dependency_graph = <<>>
    /\ reverse_dependency_graph = [dep \in {} |-> {}]
    /\ stats = [total_files |-> Len(DeepPaths), parsed_files |-> 0,
                failed_files |-> 0, total_imports |-> 0]
    /\ ret = NoCall
    /\ NoRun
    /\ NoDiagram
    /\ calls = <<>>

\* _resolve_import(imp, current_module), for an import of any module of the tree
ResolveImport ==
    \E imp \in RelativeImports, current_module \in DeepModules :
        /\ ret = NoCall
        /\ ret' = [op |-> "_resolve_import",
                   arg |-> [imp |-> imp, current_module |-> current_module],
                   val |-> _resolve_import(module_map, imp, current_module)]
        /\ UNCHANGED <<disk, edits, parserVars, runVars, diagramVars, calls>>

NextResolve == ResolveImport \/ Return

SpecResolve == InitResolve /\ [][NextResolve]_vars

----------------------------------------------------------------------------
(* The parser over a working tree that does not change: the calls that     *)
(* analyze and build the graph, and the queries.  a.py imports itself.     *)

StaticTrees ==
    {RootTree(SrcImportAB, SrcImportAC, SrcImportB),
     RootTree(SrcImportAB, SrcImportA, SrcSyntaxError),
     RootTree(SrcImportAB, SrcPlain, Absent),
     PkgTree(SrcPlain, SrcScenario, SrcImportA)}

InitStatic ==
    /\ disk \in StaticTrees
    /\ edits = 0
    /\ module_map = NewParser(disk).module_map
    /\ file_analyses = NewParser(disk).file_analyses
    /\ dependency_graph = NewParser(disk).dependency_graph
    /\ reverse_dependency_graph = [dep \in {} |-> {}]
    /\ stats = NewParser(disk).stats
    /\ ret = NoCall
    /\ NoRun
    /\ NoDiagram
    /\ calls = <<>>

NextStatic ==
    \/ \E f \in PathArgs : AnalyzeFile(f)
    \/ \E arg \in GraphArgs : GetDependencyGraph(arg)
    \/ FindCircularDependencies
    \/ \E f \in PathArgs \cup {Rel(C_py)} : GetFileImpactAnalysis(f)
    \/ Return

SpecStatic == InitStatic /\ [][NextStatic]_vars

----------------------------------------------------------------------------
(* The search for cycles over four modules a, b, main and pkg, which can   *)
(* hold two cycles that share no file, cycles that overlap, and cycles     *)
(* reached from a file outside them                                        *)

CycleFiles == {Rel(A_py), Rel(B_py), Rel(Main_py), Rel(Pkg_py)}

ImportsOf(modules) == Source([i \in DOMAIN modules |-> Import(<<modules[i]>>)], {})

CycleTrees ==
    {[p \in Paths |-> IF p = A_py THEN ImportsOf(ma)
                      ELSE IF p = B_py THEN ImportsOf(mb)
                      ELSE IF p = Main_py THEN ImportsOf(mm)
                      ELSE IF p = Pkg_py THEN ImportsOf(mp)
                      ELSE Absent] :
        ma \in {<<"b">>, <<"b", "main">>},
        mb \in {<<"a">>, <<"a", "pkg">>, <<"main">>},
        mm \in {<<"pkg">>, <<"a">>},
        mp \in {<<"main">>, <<"main", "b">>, <<>>}}

\* the lists of distinct files a caller can pass, in any order
CycleFileLists ==
    {fs \in UNION {[1..n -> CycleFiles] : n \in 1..4} :
        \A i, j \in DOMAIN fs : i # j => fs[i] # fs[j]}

InitCycles ==
    /\ disk \in CycleTrees
    /\ edits = 0
    /\ module_map = NewParser(disk).module_map
    /\ file_analyses = NewParser(disk).file_analyses
    /\ dependency_graph = NewParser(disk).dependency_graph
    /\ reverse_dependency_graph = [dep \in {} |-> {}]
    /\ stats = NewParser(disk).stats
    /\ ret = NoCall
    /\ NoRun
    /\ NoDiagram
    /\ calls = <<>>

\* get_dependency_graph(files); each of the four files is analyzed once at most
BuildGraph(files) ==
    LET r == get_dependency_graph(Parser, disk, [files |-> files, none |-> FALSE])
    IN  /\ ret = NoCall
        /\ SetParser(r.ps)
        /\ ret' = [op |-> "get_dependency_graph", arg |-> files, val |-> r.val]
        /\ UNCHANGED <<disk, edits, runVars, diagramVars, calls>>

NextCycles ==
    \/ \E fs \in CycleFileLists : BuildGraph(fs)
    \/ FindCircularDependencies
    \/ Return

SpecCycles == InitCycles /\ [][NextCycles]_vars

----------------------------------------------------------------------------
(* The two queries statement by statement.  Both maps are defaultdict(set): *)
(* reading the entry of a key gives the map an empty entry for it if it    *)
(* has none.  calls holds the local variables of the query under way, <<>> *)
(* when there is none; expanded lists the files the call has expanded.     *)

\* list(a set), for ... in a set: the orders a set can be listed in
Orders(S) ==
    {o \in [1..Cardinality(S) -> S] : \A i, j \in 1..Cardinality(S) : i # j => o[i] # o[j]}

\* as has_entry, had the queries read an entry without the test
has_entry_unchecked(keys, k) == TRUE

\* lines 730, 808, 830: key in map
has_entry(keys, k) == k \in keys

\* as is_visited, had lines 732, 748, 825 never found a file visited
is_visited_never(node, visited) == FALSE

\* lines 732, 748, 825: node in visited
is_visited(node, visited) == node \in visited

\* lines 141-142, defaultdict(set).__getitem__: the map once map[k] is read
reverse_getitem(reverse, k) ==
    IF k \in DOMAIN reverse THEN reverse
    ELSE [d \in DOMAIN reverse \cup {k} |-> IF d = k THEN {} ELSE reverse[d]]
forward_getitem(forward, k) ==
    IF Has(forward, k) THEN forward ELSE Append(forward, [k |-> k, v |-> {}])

\* lines 808-820: the early return, or the locals before the while loop
ImpactCall(file_path) ==
    /\ ret = NoCall
    /\ calls = <<>>
    /\ IF ~has_entry(DOMAIN reverse_dependency_graph, file_path)
       THEN /\ ret' = [op |-> "get_file_impact_analysis", arg |-> file_path,
                       val |-> [file |-> file_path, direct_dependents |-> <<>>,
                                transitive_dependents |-> <<>>, total_impact |-> 0]]
            /\ UNCHANGED <<calls, reverse_dependency_graph>>
       ELSE LET r == reverse_getitem(reverse_dependency_graph, file_path)
            IN  /\ reverse_dependency_graph' = r
                /\ \E to_visit \in Orders(r[file_path]) :
                      calls' = [at |-> "while", file_path |-> file_path,
                                direct |-> r[file_path], transitive |-> {},
                                to_visit |-> to_visit, visited |-> {},
                                expanded |-> <<>>]
                /\ UNCHANGED ret
    /\ UNCHANGED <<disk, edits, module_map, file_analyses, dependency_graph, stats,
                   runVars, diagramVars>>

\* lines 823-831: one pass of the while loop
ImpactStep ==
    /\ calls # <<>>
    /\ calls.at = "while"
    /\ calls.to_visit # <<>>
    /\ LET current == calls.to_visit[Len(calls.to_visit)]
           rest == SubSeq(calls.to_visit, 1, Len(calls.to_visit) - 1)
       IN  IF is_visited(current, calls.visited)
           THEN /\ calls' = [calls EXCEPT !.to_visit = rest]
                /\ UNCHANGED reverse_dependency_graph
           ELSE IF has_entry(DOMAIN reverse_dependency_graph, current)
           THEN LET r == reverse_getitem(reverse_dependency_graph, current)
                IN  /\ reverse_dependency_graph' = r
                    /\ \E more \in Orders(r[current]) :
                          calls' = [calls EXCEPT !.to_visit = rest \o more,
                                                 !.visited = @ \cup {current},
                                                 !.transitive = @ \cup {current},
                                                 !.expanded = Append(@, current)]
           ELSE /\ calls' = [calls EXCEPT !.to_visit = rest,
                                          !.visited = @ \cup {current},
                                          !.transitive = @ \cup {current},
                                          !.expanded = Append(@, current)]
                /\ UNCHANGED reverse_dependency_graph
    /\ UNCHANGED <<disk, edits, module_map, file_analyses, dependency_graph, stats,
                   ret, runVars, diagramVars>>

\* lines 833-838: the loop is over, the result is returned
ImpactReturn ==
    /\ calls # <<>>
    /\ calls.at = "while"
    /\ calls.to_visit = <<>>
    /\ ret' = [op |-> "get_file_impact_analysis", arg |-> calls.file_path,
               val |-> [file |-> calls.file_path,
                        direct_dependents |-> sorted(calls.direct),
                        transitive_dependents |->
                            sorted(transitive_only(calls.transitive, calls.direct)),
                        total_impact |-> Cardinality(calls.transitive)]]
    /\ calls' = <<>>
    /\ UNCHANGED <<disk, edits, parserVars, runVars, diagramVars>>

\* lines 744-745: visited = set(), cycles = []
CyclesCall ==
    /\ ret = NoCall
    /\ calls = <<>>
    /\ calls' = [i |-> 1, rec_stack |-> {}, visited |-> {}, cycles |-> <<>>,
                 at |-> "for", expanded |-> <<>>, stack |-> <<>>]
    /\ UNCHANGED <<disk, edits, parserVars, ret, runVars, diagramVars>>

\* lines 726-731: find_cycle(node, path, visited, rec_stack) is entered; the
\* frame it pushes holds its path and the neighbors its loop has still to take
enter_find_cycle(c, forward, node, path, rec_stack) ==
    LET has == has_entry(Keys(forward), node)
        forward1 == IF has THEN forward_getitem(forward, node) ELSE forward
    IN  [forward |-> forward1,
         calls |-> [c EXCEPT !.at = "find_cycle",
                             !.visited = @ \cup {node},
                             !.rec_stack = rec_stack \cup {node},
                             !.expanded = Append(@, node),
                             !.stack = Append(@, [node |-> node,
                                                  path |-> Append(path, node),
                                                  todo |-> IF has THEN Get(forward1, node)
                                                           ELSE {}])]]

\* lines 747-749: the next key of the forward map; a search starts from it
\* with a new rec_stack unless it is visited
RootStep ==
    /\ calls # <<>>
    /\ calls.at = "for"
    /\ calls.i <= Len(dependency_graph)
    /\ LET node == dependency_graph[calls.i].k
           e == enter_find_cycle(calls, dependency_graph, node, <<>>, {})
       IN  IF is_visited(node, calls.visited)
           THEN /\ calls' = [calls EXCEPT !.i = @ + 1]
                /\ UNCHANGED dependency_graph
           ELSE /\ calls' = e.calls
                /\ dependency_graph' = e.forward
    /\ UNCHANGED <<disk, edits, module_map, file_analyses, reverse_dependency_graph,
                   stats, ret, runVars, diagramVars>>

\* the search from a key has returned its result (<<>> is None), lines 750-751
root_returns(c, result) ==
    [c EXCEPT !.at = "for", !.i = @ + 1, !.stack = <<>>,
              !.cycles = IF result # <<>> /\ ~InSeq(@, result)
                         THEN Append(@, result) ELSE @]

\* lines 731-742: one pass of the loop over the neighbors in the innermost
\* find_cycle, or its return of None once the loop is over
FindCycleStep ==
    /\ calls # <<>>
    /\ calls.at = "find_cycle"
    /\ LET n == Len(calls.stack)
           top == calls.stack[n]
       IN  IF top.todo = {}
           THEN /\ calls' =
                      IF n = 1
                      THEN root_returns([calls EXCEPT !.rec_stack = @ \ {top.node}], <<>>)
                      ELSE [calls EXCEPT !.rec_stack = @ \ {top.node},
                                         !.stack = SubSeq(@, 1, n - 1)]
                /\ UNCHANGED dependency_graph
           ELSE \E neighbor \in top.todo :
                    LET c == [calls EXCEPT !.stack[n].todo = @ \ {neighbor}]
                        e == enter_find_cycle(c, dependency_graph, neighbor, top.path,
                                              calls.rec_stack)
                    IN  IF ~is_visited(neighbor, calls.visited)
                        THEN /\ calls' = e.calls
                             /\ dependency_graph' = e.forward
                        ELSE IF on_stack(neighbor, calls.rec_stack)
                        THEN /\ calls' = root_returns(c, cycle_slice(top.path, neighbor))
                             /\ UNCHANGED dependency_graph
                        ELSE /\ calls' = c
                             /\ UNCHANGED dependency_graph
    /\ UNCHANGED <<disk, edits, module_map, file_analyses, reverse_dependency_graph,
                   stats, ret, runVars, diagramVars>>

\* line 753: return cycles
CyclesReturn ==
    /\ calls # <<>>
    /\ calls.at = "for"
    /\ calls.i > Len(dependency_graph)
    /\ ret' = [op |-> "find_circular_dependencies", arg |-> <<>>, val |-> calls.cycles]
    /\ calls' = <<>>
    /\ UNCHANGED <<disk, edits, parserVars, runVars, diagramVars>>

\* the graph is built between queries, not during one
BuildGraphBetween(files) == calls = <<>> /\ BuildGraph(files)

QueryStep == ImpactStep \/ ImpactReturn \/ RootStep \/ FindCycleStep \/ CyclesReturn

NextLoops ==
    \/ \E fs \in OrderedFileLists : BuildGraphBetween(fs)
    \/ \E f \in RootFiles : ImpactCall(f)
    \/ CyclesCall
    \/ QueryStep
    \/ Return

SpecLoops == InitGraph /\ [][NextLoops]_vars

\* a query that has been called runs on: its next statement is executed
SpecLoopsLive == SpecLoops /\ WF_vars(QueryStep)

----------------------------------------------------------------------------
(* The lookup of an import against the module map: main.py imports from    *)
(* pkg, which is any of the module pkg.py, the files pkg/a.py and pkg/b.py *)
(* and a directory pkg/__init__ that holds an __init__.py                  *)

PkgInitInit_py == <<"pkg", "__init__", "__init__.py">>

\* os.walk: the root's files, those of pkg/, those of pkg/__init__/
LookupWalk == <<Main_py, Pkg_py, PkgA_py, PkgB_py, PkgInitInit_py>>

\* import pkg / import pkg.a / import os / from pkg import a / ... import a, b /
\* ... import b, a / ... import c / ... import *
LookupImports ==
    {Import(<<"pkg">>), Import(<<"pkg", "a">>), Import(<<"os">>)}
    \cup {ImportFrom(<<"pkg">>, names, 0, "Module") :
            names \in {<<Alias(<<"a">>, <<>>)>>,
                       <<Alias(<<"a">>, <<>>), Alias(<<"b">>, <<>>)>>,
                       <<Alias(<<"b">>, <<>>), Alias(<<"a">>, <<>>)>>,
                       <<Alias(<<"c">>, <<>>)>>,
                       <<Alias(<<"*">>, <<>>)>>}}

\* main.py holds one or two of the imports; the other files are there or not
LookupTrees ==
    {[p \in Range(LookupWalk) |->
        IF p = Main_py THEN Source(imports, {})
        ELSE IF p \in present THEN SrcPlain ELSE Absent] :
        imports \in [1..1 -> LookupImports] \cup [1..2 -> LookupImports],
        present \in SUBSET {Pkg_py, PkgA_py, PkgB_py, PkgInitInit_py}}

\* _index_repository over this tree: module_map[module_name] = path
RECURSIVE index_lookup(_, _, _)
index_lookup(d, i, acc) ==
    IF i > Len(LookupWalk) THEN acc
    ELSE IF ~Exists(d, LookupWalk[i]) THEN index_lookup(d, i + 1, acc)
    ELSE index_lookup(d, i + 1,
                      Put(acc, _path_to_module(LookupWalk[i]), LookupWalk[i]))

InitLookup ==
    /\ disk \in LookupTrees
    /\ edits = 0
    /\ module_map = index_lookup(disk, 1, <<>>)
    /\ file_analyses = <<>>
    /\ dependency_graph = <<>>
    /\ reverse_dependency_graph = [dep \in {} |-> {}]
    /\ stats = [total_files |-> Len(module_map), parsed_files |-> 0,
                failed_files |-> 0, total_imports |-> 0]
    /\ ret = NoCall
    /\ NoRun
    /\ NoDiagram
    /\ calls = <<>>

\* _resolve_import(imp, "main"), for an import statement of main.py
ResolveLookup ==
    \E imp \in Range(_extract_imports(disk[Main_py])) :
        /\ ret = NoCall
        /\ ret' = [op |-> "_resolve_import",
                   arg |-> [imp |-> imp, current_module |-> <<"main">>],
                   val |-> _resolve_import(module_map, imp, <<"main">>)]
        /\ UNCHANGED <<disk, edits, parserVars, runVars, diagramVars, calls>>

NextLookup == ResolveLookup \/ AnalyzeFile(Rel(Main_py)) \/ Return

SpecLookup == InitLookup /\ [][NextLookup]_vars

----------------------------------------------------------------------------
(* The classification of imports: a.py holds one import statement, plain   *)
(* or from-import, whose direct parent in the syntax tree is the module, a *)
(* function, an if, a try (body, else or finally) or an except handler     *)

\* import names, as the statement under a parent node of the given type
ImportIn(names, parent) ==
    [node |-> "Import", module |-> <<>>, names |-> names,
     level |-> 0, parent |-> parent]

\* ast.iter_child_nodes: the types of node an import statement is a child of
ParentTypes == {"Module", "FunctionDef", "If", "Try", "ExceptHandler"}

\* import json / import json as j / import os, json //
\* from pkg import a / ... a as x / ... * / from . import a / from __future__ ...
ImportNodes ==
    {ImportIn(names, parent) :
        names \in {<<Alias(<<"json">>, <<>>)>>,
                   <<Alias(<<"json">>, <<"j">>)>>,
                   <<Alias(<<"os">>, <<>>), Alias(<<"json">>, <<>>)>>},
        parent \in ParentTypes}
    \cup {ImportFrom(module, names, 0, parent) :
            module \in {<<"pkg">>, <<"__future__">>},
            names \in {<<Alias(<<"a">>, <<>>)>>, <<Alias(<<"a">>, <<"x">>)>>,
                       <<Alias(<<"*">>, <<>>)>>},
            parent \in ParentTypes}
    \cup {ImportFrom(<<>>, <<Alias(<<"a">>, <<>>)>>, 1, parent) :
            parent \in ParentTypes}

ImportTrees ==
    {[p \in Paths |-> IF p = A_py THEN Source(<<node>>, {}) ELSE Absent] :
        node \in ImportNodes}

InitImports ==
    /\ disk \in ImportTrees
    /\ edits = 0
    /\ module_map = NewParser(disk).module_map
    /\ file_analyses = NewParser(disk).file_analyses
    /\ dependency_graph = NewParser(disk).dependency_graph
    /\ reverse_dependency_graph = [dep \in {} |-> {}]
    /\ stats = NewParser(disk).stats
    /\ ret = NoCall
    /\ NoRun
    /\ NoDiagram
    /\ calls = <<>>

NextImports == AnalyzeFile(Rel(A_py)) \/ Return

SpecImports == InitImports /\ [][NextImports]_vars

----------------------------------------------------------------------------
(* Calls of get_dependency_graph on one parser from two threads, for       *)
(* different files.  A step is one pass through the statements between two *)
(* writes of a map: the analysis of a file not yet cached, the write of    *)
(* the file's forward entry, the addition of the file to one reverse       *)
(* entry.  calls[t] holds the local variables of the call of thread t.     *)

Threads == {1, 2}

Idle == [i |-> 0, todo |-> {}, files |-> <<>>, graph |-> <<>>, at |-> "idle"]

\* the lists of files a thread asks for
ThreadFileLists == {sorted(S) : S \in SUBSET {Rel(A_py), Rel(B_py), Rel(C_py)} \ {{}}}

ThreadTrees ==
    {RootTree(SrcImportB, SrcImportAC, SrcImportB),
     RootTree(SrcImportBC, SrcImportC, SrcPlain),
     RootTree(SrcImportB, SrcImportA, Absent)}

\* line 712: self.dependency_graph[file_path] = analysis.dependencies
set_forward(forward, file_path, dependencies) == Put(forward, file_path, dependencies)

\* line 714: self.reverse_dependency_graph[dep].add(file_path)
add_reverse(reverse, dep, file_path) ==
    [d \in DOMAIN reverse \cup {dep} |->
        IF d = dep
        THEN add_dependent(IF dep \in DOMAIN reverse THEN reverse[dep] ELSE {}, file_path)
        ELSE reverse[d]]

InitThreads ==
    /\ disk \in ThreadTrees
    /\ edits = 0
    /\ module_map = NewParser(disk).module_map
    /\ file_analyses = NewParser(disk).file_analyses
    /\ dependency_graph = NewParser(disk).dependency_graph
    /\ reverse_dependency_graph = [dep \in {} |-> {}]
    /\ stats = NewParser(disk).stats
    /\ ret = NoCall
    /\ NoRun
    /\ NoDiagram
    /\ calls = [t \in Threads |-> Idle]

\* thread t calls get_dependency_graph(files), for files no other call is for
ThreadCall(t, files) ==
    /\ calls[t].at = "idle"
    /\ \A u \in Threads \ {t} : Range(calls[u].files) \cap Range(files) = {}
    /\ calls' = [calls EXCEPT ![t] = [i |-> 1, todo |-> {}, files |-> files,
                                      graph |-> <<>>, at |-> "for"]]
    /\ UNCHANGED <<disk, edits, parserVars, ret, runVars, diagramVars>>

\* lines 702-705: the next file of the list, analyzed if it is not cached
ThreadAnalyze(t) ==
    LET c == calls[t]
    IN  /\ c.at = "for"
        /\ c.i <= Len(c.files)
        /\ IF ~Has(file_analyses, c.files[c.i])
           THEN SetParser(analyze_file(Parser, disk, c.files[c.i]).ps)
           ELSE UNCHANGED parserVars
        /\ calls' = [calls EXCEPT ![t].at = "entry"]
        /\ UNCHANGED <<disk, edits, ret, runVars, diagramVars>>

\* lines 707-712: the entry of the result and the forward entry of the file
ThreadForward(t) ==
    LET c == calls[t]
        file_path == c.files[c.i]
    IN  /\ c.at = "entry"
        /\ IF Has(file_analyses, file_path)
           THEN LET analysis == Get(file_analyses, file_path)
                IN  /\ dependency_graph' =
                           set_forward(dependency_graph, file_path, analysis.dependencies)
                    /\ calls' = [calls EXCEPT
                                   ![t].graph = Put(@, file_path, sorted(analysis.dependencies)),
                                   ![t].todo = analysis.dependencies,
                                   ![t].at = "reverse"]
           ELSE /\ calls' = [calls EXCEPT ![t].i = @ + 1, ![t].at = "for"]
                /\ UNCHANGED dependency_graph
        /\ UNCHANGED <<disk, edits, module_map, file_analyses, reverse_dependency_graph,
                       stats, ret, runVars, diagramVars>>

\* lines 713-714: the file is added to the reverse entry of one dependency
ThreadReverse(t) ==
    LET c == calls[t]
    IN  /\ c.at = "reverse"
        /\ IF c.todo = {}
           THEN /\ calls' = [calls EXCEPT ![t].i = @ + 1, ![t].at = "for"]
                /\ UNCHANGED reverse_dependency_graph
           ELSE \E dep \in c.todo :
                    /\ reverse_dependency_graph' =
                           add_reverse(reverse_dependency_graph, dep, c.files[c.i])
                    /\ calls' = [calls EXCEPT ![t].todo = @ \ {dep}]
        /\ UNCHANGED <<disk, edits, module_map, file_analyses, dependency_graph,
                       stats, ret, runVars, diagramVars>>

\* line 716: return graph
ThreadReturn(t) ==
    /\ calls[t].at = "for"
    /\ calls[t].i > Len(calls[t].files)
    /\ calls' = [calls EXCEPT ![t].at = "returned"]
    /\ UNCHANGED <<disk, edits, parserVars, ret, runVars, diagramVars>>

NextThreads ==
    \E t \in Threads :
        \/ \E files \in ThreadFileLists : ThreadCall(t, files)
        \/ ThreadAnalyze(t)
        \/ ThreadForward(t)
        \/ ThreadReverse(t)
        \/ ThreadReturn(t)

SpecThreads == InitThreads /\ [][NextThreads]_vars

----------------------------------------------------------------------------
(* The analysis of a file of one or two functions, or of one class with a  *)
(* method, whose body is any sequence of up to MaxBody of these statements *)

MaxBody == 2

Statements ==
    {Pass,
     Expr(BoolOp(<<Name, Name, Name>>)),
     Expr(BoolOp(<<Name, BoolOp(<<Name, Name>>)>>)),
     Expr(ListComp(<<comprehension(<<Name>>)>>)),
     Expr(ListComp(<<comprehension(<<Name, BoolOp(<<Name, Name>>)>>),
                     comprehension(<<>>)>>)),
     If(Name, <<Pass>>),
     If(BoolOp(<<Name, Name>>), <<Pass>>),
     If(Name, <<If(Name, <<Pass>>)>>),
     For(<<Pass>>),
     AsyncFor(<<Pass>>),
     With(<<Pass>>),
     Try(<<Pass>>, <<ExceptHandler(<<Pass>>), ExceptHandler(<<Pass>>)>>),
     FunctionDef("g", <<If(Name, <<Pass>>)>>)}

Bodies == UNION {[1..n -> Statements] : n \in 1..MaxBody}

\* x = 1, without a function
SrcNoFunction == SourceWith(<<>>, {}, <<Node("Assign", "", 0, <<Name>>)>>)

ComplexitySources ==
    {SrcNoFunction}
    \cup {SourceWith(<<>>, {}, <<FunctionDef("f", body)>>) : body \in Bodies}
    \cup {SourceWith(<<>>, {}, <<FunctionDef("f", body),
                                 AsyncFunctionDef("h", <<While(Name, <<Pass>>)>>)>>) :
            body \in Bodies}
    \cup {SourceWith(<<>>, {}, <<ClassDef("C", <<FunctionDef("f", body)>>)>>) :
            body \in Bodies}

InitComplexity ==
    /\ disk \in {RootTree(src, Absent, Absent) : src \in ComplexitySources}
    /\ edits = 0
    /\ module_map = NewParser(disk).module_map
    /\ file_analyses = NewParser(disk).file_analyses
    /\ dependency_graph = NewParser(disk).dependency_graph
    /\ reverse_dependency_graph = [dep \in {} |-> {}]
    /\ stats = NewParser(disk).stats
    /\ ret = NoCall
    /\ NoRun
    /\ NoDiagram
    /\ calls = <<>>

NextComplexity == AnalyzeFile(Rel(A_py)) \/ Return

SpecComplexity == InitComplexity /\ [][NextComplexity]_vars

----------------------------------------------------------------------------
(* MermaidGenerator: the node identifiers of a diagram *)

\* the longest file stem a rendered path has, in characters
MaxLen == 3

\* a working tree without files
NoFiles == [p \in Paths |-> Absent]

\* file paths as strings: a stem over these characters and the suffix .py
StemChars == {"a", "/", "-", "_"}
Stems == UNION {[1..n -> StemChars] : n \in 1..MaxLen}
IsPath(s) ==
    /\ s[1] # "/"
    /\ s[Len(s)] # "/"
    /\ \A i \in 1..(Len(s) - 1) : ~(s[i] = "/" /\ s[i + 1] = "/")
DiagramFiles == {s \o <<".", "p", "y">> : s \in {t \in Stems : IsPath(t)}}

\* str.replace(old, new) for one-character old and new
replace(text, old, new) == [i \in DOMAIN text |-> IF text[i] = old THEN new ELSE text[i]]

\* _clean_id
_clean_id(text) ==
    replace(replace(replace(replace(text, "/", "_"), ".", "_"), "-", "_"), "\\", "_")

InitIds ==
    /\ disk = NoFiles
    /\ edits = 0
    /\ module_map = NewParser(disk).module_map
    /\ file_analyses = NewParser(disk).file_analyses
    /\ dependency_graph = NewParser(disk).dependency_graph
    /\ reverse_dependency_graph = [dep \in {} |-> {}]
    /\ stats = NewParser(disk).stats
    /\ ret = NoCall
    /\ NoRun
    /\ files_rendered \in {{f, g} : f, g \in DiagramFiles}
    /\ node_ids = <<>>
    /\ calls = <<>>

\* the loops of generate_architecture_map and generate_complexity_heatmap
\* that give every file of the diagram its node identifier
RenderDiagram ==
    /\ DOMAIN node_ids = {}
    /\ node_ids' = [f \in files_rendered |-> _clean_id(f)]
    /\ UNCHANGED <<disk, edits, parserVars, ret, runVars, files_rendered, calls>>

NextIds == RenderDiagram

SpecIds == InitIds /\ [][NextIds]_vars

----------------------------------------------------------------------------
(* MermaidGenerator: the architecture map.  The text returned is the       *)
(* sequence of its lines, <<>> for the empty string; a line is a record    *)
(* of its kind and of the strings formatted into it.                       *)

\* the characters of the names of the tree
Chars(name) ==
    CASE name = "a.py" -> <<"a", ".", "p", "y">>
      [] name = "b.py" -> <<"b", ".", "p", "y">>
      [] name = "c.py" -> <<"c", ".", "p", "y">>
      [] name = "main.py" -> <<"m", "a", "i", "n", ".", "p", "y">>
      [] name = "pkg.py" -> <<"p", "k", "g", ".", "p", "y">>
      [] name = "__init__.py" -> <<"_", "_", "i", "n", "i", "t", "_", "_", ".", "p", "y">>
      [] name = "pkg" -> <<"p", "k", "g">>
      [] name = "venv" -> <<"v", "e", "n", "v">>

\* str(path.relative_to(repo_root)): the segments joined by '/'
RECURSIVE join_path(_)
join_path(p) ==
    IF Len(p) = 1 THEN Chars(p[1])
    ELSE Chars(p[1]) \o <<"/">> \o join_path(Tail(p))
PathStr(file) == join_path(file.p)

startswith(text, prefix) ==
    Len(text) >= Len(prefix) /\ SubSeq(text, 1, Len(prefix)) = prefix

\* str.replace(old, new) for a string old
RECURSIVE replace_str(_, _, _)
replace_str(text, old, new) ==
    IF text = <<>> THEN <<>>
    ELSE IF startswith(text, old)
         THEN new \o replace_str(SubSeq(text, Len(old) + 1, Len(text)), old, new)
    ELSE <<Head(text)>> \o replace_str(Tail(text), old, new)

Str_src == <<"s", "r", "c", "/">>
Str_src_agents == Str_src \o <<"a", "g", "e", "n", "t", "s">>
Str_src_tools == Str_src \o <<"t", "o", "o", "l", "s">>
Str_src_utils == Str_src \o <<"u", "t", "i", "l", "s">>
Str_src_graph == Str_src \o <<"g", "r", "a", "p", "h">>
Str_src_state == Str_src \o <<"s", "t", "a", "t", "e">>
Str_main_py == <<"m", "a", "i", "n", ".", "p", "y">>

_classify_node(path) ==
    IF startswith(path, Str_src_agents) THEN "Agents"
    ELSE IF startswith(path, Str_src_tools) THEN "Tools"
    ELSE IF startswith(path, Str_src_utils) THEN "Utilities"
    ELSE IF startswith(path, Str_src_graph) \/ startswith(path, Str_src_state)
            \/ path = Str_main_py
         THEN "Core"
    ELSE "Other"

_style_for_node(path) ==
    IF startswith(path, Str_src_agents) THEN "Agents"
    ELSE IF startswith(path, Str_src_tools) THEN "Tools"
    ELSE IF startswith(path, Str_src_utils) THEN "Utils"
    ELSE IF startswith(path, Str_src_graph) \/ startswith(path, Str_src_state)
            \/ path = Str_main_py
         THEN "Core"
    ELSE "Other"

TextLine(text) == [kind |-> "text", text |-> text]
SubgraphLine(section) == [kind |-> "subgraph", section |-> section]
NodeLine(node_id, label, style) ==
    [kind |-> "node", node_id |-> node_id, label |-> label, style |-> style]
EndLine == [kind |-> "end"]
EdgeLine(src_id, tgt_id) == [kind |-> "edge", src_id |-> src_id, tgt_id |-> tgt_id]

\* the header, the class definitions and the legend
MapHeader ==
    <<TextLine("%% RepoRanger Dependency Graph"),
      TextLine("graph TD"),
      TextLine("%% Styles"),
      TextLine("classDef Agents"),
      TextLine("classDef Tools"),
      TextLine("classDef Utils"),
      TextLine("classDef Core"),
      TextLine("classDef Other"),
      TextLine("%% Legend"),
      SubgraphLine("Legend[Legend]"),
      NodeLine(<<"L", "A">>, "Agent Modules", "Agents"),
      NodeLine(<<"L", "T">>, "Tooling", "Tools"),
      NodeLine(<<"L", "U">>, "Utilities", "Utils"),
      NodeLine(<<"L", "C">>, "Core/Graph", "Core"),
      NodeLine(<<"L", "O">>, "Misc", "Other"),
      EndLine>>

\* as map_nodes, had lines 26-29 collected the sources only
map_nodes_sources(graph) == Keys(graph)

\* lines 26-29: the sources and the targets of the graph
map_nodes(graph) == Keys(graph) \cup UNION {Range(graph[i].v) : i \in DOMAIN graph}

\* lines 31-33: the sections, in the order their first node comes in
RECURSIVE map_sections(_, _, _)
map_sections(nodes, i, sections) ==
    IF i > Len(nodes) THEN sections
    ELSE LET section == _classify_node(PathStr(nodes[i]))
             items == IF Has(sections, section) THEN Get(sections, section) ELSE <<>>
         IN  map_sections(nodes, i + 1, Put(sections, section, Append(items, nodes[i])))

\* lines 54-61: one subgraph block per section
section_lines(section, items) ==
    <<SubgraphLine(section)>>
    \o [i \in DOMAIN items |->
          NodeLine(_clean_id(PathStr(items[i])),
                   replace_str(PathStr(items[i]), Str_src, <<>>),
                   _style_for_node(PathStr(items[i])))]
    \o <<EndLine>>

\* lines 63-67: one edge line per target of every source
edge_lines(source, targets) ==
    [i \in DOMAIN targets |->
       EdgeLine(_clean_id(PathStr(source)), _clean_id(PathStr(targets[i])))]

\* generate_architecture_map(files): the parser afterwards and the text
generate_architecture_map(ps, d, arg) ==
    LET r == get_dependency_graph(ps, d, arg)
        graph == r.val
        sections == map_sections(sorted(map_nodes(graph)), 1, <<>>)
    IN  IF graph = <<>> THEN [ps |-> r.ps, val |-> <<>>]
        ELSE [ps |-> r.ps,
              val |-> MapHeader
                      \o Flatten([i \in DOMAIN sections |->
                                    section_lines(sections[i].k, sections[i].v)])
                      \o Flatten([i \in DOMAIN graph |->
                                    edge_lines(graph[i].k, graph[i].v)])]

MapFiles == {Rel(Main_py), Rel(A_py), Rel(B_py)}

\* main.py, a.py and b.py: main.py imports a, or a and b, or is not there
MapTrees ==
    {MainTree(sm, sa, sb) :
        sm \in {Absent, SrcPlain, SrcImportA, SrcImportAB},
        sa \in {SrcPlain, SrcImportB},
        sb \in {SrcPlain, SrcImportA}}

\* the lists of distinct files a caller can pass, the empty list included
MapFileLists ==
    {fs \in UNION {[1..n -> MapFiles] : n \in 0..3} :
        \A i, j \in DOMAIN fs : i # j => fs[i] # fs[j]}

InitMap ==
    /\ disk \in MapTrees
    /\ edits = 0
    /\ module_map = NewParser(disk).module_map
    /\ file_analyses = NewParser(disk).file_analyses
    /\ dependency_graph = NewParser(disk).dependency_graph
    /\ reverse_dependency_graph = [dep \in {} |-> {}]
    /\ stats = NewParser(disk).stats
    /\ ret = NoCall
    /\ NoRun
    /\ NoDiagram
    /\ calls = <<>>

GenerateArchitectureMap(arg) ==
    LET r == generate_architecture_map(Parser, disk, arg)
    IN  /\ ret = NoCall
        /\ Analyses(r.ps.stats) <= MaxAnalyses
        /\ SetParser(r.ps)
        /\ ret' = [op |-> "generate_architecture_map", arg |-> arg, val |-> r.val]
        /\ UNCHANGED <<disk, edits, runVars, diagramVars, calls>>

NextMap ==
    \/ GenerateArchitectureMap([files |-> <<>>, none |-> TRUE])
    \/ \E fs \in MapFileLists : GenerateArchitectureMap([files |-> fs, none |-> FALSE])
    \/ Return

SpecMap == InitMap /\ [][NextMap]_vars

----------------------------------------------------------------------------
(* The workspace and the agents of the workflow *)

WORKSPACE_DIR == ".reporanger_workspace"

\* save_artifact: the files afterwards and the path written; a path is the
\* directory, the file name and the extension; prefix "" is None
save_artifact(files, content, extension, prefix) ==
    LET filename == IF prefix # "" THEN <<prefix, extension>>
                    ELSE <<"latest_artifact", extension>>
        filepath == <<WORKSPACE_DIR>> \o filename
    IN  [files |-> Put(files, filepath, content), val |-> filepath]

\* an entry of the artifact registry
Artifact(id, type, file_path, created_by) ==
    [id |-> id, type |-> type, file_path |-> file_path, created_by |-> created_by]

THRESHOLDS ==
    [complexity |-> 10, nesting |-> 4, methods_in_class |-> 15,
     file_lines |-> 500, high_impact |-> 5]

\* steward_node, check 1
high_impact_issues(file_path, impact) ==
    IF impact.total_impact > THRESHOLDS.high_impact
    THEN <<[file |-> file_path, type |-> "high_impact", severity |-> "warning",
            message |-> impact.total_impact,
            details |-> [direct_dependents |->
                            SubSeq(impact.direct_dependents, 1,
                                   IF Len(impact.direct_dependents) < 5
                                   THEN Len(impact.direct_dependents) ELSE 5)]]>>
    ELSE <<>>

\* steward_node, check 2
high_complexity_issues(file_path, analysis) ==
    LET found == SelectSeq(analysis.functions,
                    LAMBDA func : func.complexity > THRESHOLDS.complexity)
    IN  [i \in DOMAIN found |->
            [file |-> file_path, type |-> "high_complexity", severity |-> "warning",
             message |-> <<found[i].name, found[i].complexity>>,
             threshold |-> THRESHOLDS.complexity,
             suggestion |-> "Consider breaking into smaller functions"]]

\* steward_node, check 3
deep_nesting_issues(file_path, analysis) ==
    IF analysis.metrics.max_nesting_depth > THRESHOLDS.nesting
    THEN <<[file |-> file_path, type |-> "deep_nesting", severity |-> "warning",
            message |-> analysis.metrics.max_nesting_depth,
            threshold |-> THRESHOLDS.nesting,
            suggestion |-> "Use guard clauses or extract methods"]>>
    ELSE <<>>

\* as is_god_class, had line 124 tested len(cls.methods) >= the threshold
is_god_class_at_threshold(cls) == Len(cls.methods) >= THRESHOLDS.methods_in_class

\* steward_node, line 124
is_god_class(cls) == Len(cls.methods) > THRESHOLDS.methods_in_class

\* steward_node, check 4
god_class_issues(file_path, analysis) ==
    LET found == SelectSeq(analysis.classes, is_god_class)
    IN  [i \in DOMAIN found |->
            [file |-> file_path, type |-> "god_class", severity |-> "warning",
             message |-> <<found[i].name, Len(found[i].methods)>>,
             threshold |-> THRESHOLDS.methods_in_class,
             suggestion |-> "Consider splitting responsibilities"]]

\* steward_node, check 5: the first three unused imports
unused_import_issues(file_path, unused) ==
    [i \in 1..(IF Len(unused) < 3 THEN Len(unused) ELSE 3) |->
        [file |-> file_path, type |-> "unused_import", severity |-> "info",
         message |-> IF unused[i].module # <<>> THEN <<unused[i].module>>
                     ELSE unused[i].names]]

\* steward_node, check 6
wildcard_import_issues(file_path, analysis) ==
    LET found == SelectSeq(analysis.imports,
                    LAMBDA imp : imp.import_type = "wildcard" /\ ~imp.is_future_import)
    IN  [i \in DOMAIN found |->
            [file |-> file_path, type |-> "wildcard_import", severity |-> "info",
             message |-> found[i].module,
             suggestion |-> "Import specific names instead"]]

\* as has_parse_errors, had line 65 never skipped a file
has_parse_errors_ignored(analysis) == FALSE

\* steward_node, line 65: if analysis.errors
has_parse_errors(analysis) == analysis.errors # <<>>

\* steward_node, checks 1 to 6 for a file whose analysis has no errors
file_issues(file_path, analysis, impact, unused) ==
    high_impact_issues(file_path, impact)
    \o high_complexity_issues(file_path, analysis)
    \o deep_nesting_issues(file_path, analysis)
    \o god_class_issues(file_path, analysis)
    \o unused_import_issues(file_path, unused)
    \o wildcard_import_issues(file_path, analysis)

\* steward_node, the loop over the changed files from index i on; r is what
\* analyze_file gave for files[i], unused what find_unused_imports gave
RECURSIVE steward_files(_, _, _, _, _), steward_file(_, _, _, _, _),
          steward_checks(_, _, _, _, _, _)
steward_checks(r, unused, d, files, i, issues_found) ==
    steward_files(unused.ps, d, files, i + 1,
        issues_found
        \o file_issues(files[i], r.val,
                       get_file_impact_analysis(r.ps.reverse_dependency_graph, files[i]),
                       unused.val))
steward_file(r, d, files, i, issues_found) ==
    IF has_parse_errors(r.val)
    THEN steward_files(r.ps, d, files, i + 1,
             Append(issues_found,
                    [file |-> files[i], type |-> "syntax_error",
                     severity |-> "critical", message |-> r.val.errors[1]]))
    ELSE steward_checks(r, find_unused_imports(r.ps, d, files[i]), d, files, i,
                        issues_found)
steward_files(ps, d, files, i, issues_found) ==
    IF i > Len(files) THEN [ps |-> ps, val |-> issues_found]
    ELSE steward_file(analyze_file(ps, d, files[i]), d, files, i, issues_found)

\* as cycle_involves_target, had line 172 asked for every changed file
cycle_involves_all_targets(cycle, files) ==
    \A i \in DOMAIN files : InSeq(cycle, files[i])

\* steward_node, line 172: any(f in cycle for f in changed_files)
cycle_involves_target(cycle, files) ==
    \E i \in DOMAIN files : InSeq(cycle, files[i])

\* steward_node, check 7
circular_dependency_issues(cycles, files) ==
    LET found == SelectSeq(cycles, LAMBDA cycle : cycle_involves_target(cycle, files))
    IN  [i \in DOMAIN found |->
            [type |-> "circular_dependency", severity |-> "warning",
             message |-> "Circular dependency detected",
             details |-> [cycle |-> found[i]]]]

\* git ls-files "*.py": the files of the working tree, sorted
ls_files(d) == sorted({Rel(p) : p \in {q \in Paths : Exists(d, q)}})

\* state.get("mode", default); the mode "None" stands for a state with no mode
state_get_mode(m, default) == IF m = "None" THEN default ELSE m

route_start(m) ==
    LET mode_ == state_get_mode(m, "full")
    IN  IF mode_ = "commit" THEN "scribe"
        ELSE IF mode_ = "audit" THEN "steward"
        ELSE IF mode_ = "pr" THEN "steward"
        ELSE "architect"

\* as route_steward, had lines 42-43 sent a pr run on to the tactician
route_steward_pr_tactician(m) ==
    LET mode_ == state_get_mode(m, "full")
    IN  IF mode_ = "audit" THEN "END"
        ELSE "tactician"

route_steward(m) ==
    LET mode_ == state_get_mode(m, "full")
    IN  IF mode_ = "audit" THEN "END"
        ELSE IF mode_ = "pr" THEN "scribe"
        ELSE "tactician"

route_tactician(m) == "scribe"

route_scribe(m) == "END"

----------------------------------------------------------------------------
(* One run of the workflow graph *)

Star == Alias(<<"*">>, <<>>)
\* from __future__ import annotations / from b import *
SrcStarB ==
    Source(<<ImportFrom(<<"__future__">>, <<Alias(<<"annotations">>, <<>>)>>, 0, "Module"),
             ImportFrom(<<"b">>, <<Star>>, 0, "Module")>>, {})
\* try: from b import * / except ImportError: pass
SrcTryStarB == Source(<<ImportFrom(<<"b">>, <<Star>>, 0, "Try")>>, {})
\* if FLAG: from b import *
SrcIfStarB == Source(<<ImportFrom(<<"b">>, <<Star>>, 0, "If")>>, {<<"FLAG">>})
\* from .b import * / from .b import f / f()
SrcRelStarB ==
    Source(<<ImportFrom(<<"b">>, <<Star>>, 1, "Module"),
             ImportFrom(<<"b">>, <<Alias(<<"f">>, <<>>)>>, 1, "Module")>>, {<<"f">>})

\* k if statements one after the other, and k if statements inside each other
sequential_ifs(k) == [i \in 1..k |-> If(Name, <<Pass>>)]
RECURSIVE nested_ifs(_)
nested_ifs(k) == IF k = 0 THEN <<Pass>> ELSE <<If(Name, nested_ifs(k - 1))>>

MethodNames ==
    <<"m01", "m02", "m03", "m04", "m05", "m06", "m07", "m08", "m09", "m10",
      "m11", "m12", "m13", "m14", "m15", "m16">>
\* k methods that only pass
trivial_methods(k) == [i \in 1..k |-> FunctionDef(MethodNames[i], <<Pass>>)]

\* f of complexity 11, g of complexity 10, h of complexity 12 and nesting 5
SrcComplex ==
    SourceWith(<<>>, {},
               <<FunctionDef("f", sequential_ifs(THRESHOLDS.complexity)),
                 FunctionDef("g", sequential_ifs(THRESHOLDS.complexity - 1)),
                 AsyncFunctionDef("h", nested_ifs(THRESHOLDS.nesting + 1)
                                       \o sequential_ifs(THRESHOLDS.complexity
                                                          - THRESHOLDS.nesting))>>)
\* class God of 16 trivial methods, class Big of 15
SrcClasses ==
    SourceWith(<<>>, {},
               <<ClassDef("God", trivial_methods(THRESHOLDS.methods_in_class + 1)),
                 ClassDef("Big", trivial_methods(THRESHOLDS.methods_in_class))>>)

\* the working trees the workflow runs on
RunTrees ==
    {RootTree(SrcImportB, SrcImportAC, SrcImportB),
     RootTree(SrcImportB, SrcImportA, SrcSyntaxError),
     RootTree(SrcImportB, SrcImportA, Absent),
     RootTree(SrcStarB, SrcPlain, SrcTryStarB),
     RootTree(SrcIfStarB, SrcPlain, SrcPlain),
     RootTree(SrcSyntaxError, SrcNullBytes, SrcStarB),
     RootTree(SrcComplex, SrcClasses, SrcPlain),
     PkgTree(SrcPlain, SrcRelStarB, SrcPlain)}

\* git diff --name-only: files of the tree, and c.py as a deleted file
ChangedFileLists(d) ==
    {sorted(S) : S \in SUBSET ({Rel(p) : p \in {q \in Paths : Exists(d, q)}}
                               \cup {Rel(C_py)})}

\* the commands of main.py that run the graph, and a state that holds no mode
Modes == {"full", "audit", "docs", "pr", "commit", "None"}

InitRun ==
    /\ disk \in RunTrees
    /\ edits = 0
    /\ module_map = NewParser(disk).module_map
    /\ file_analyses = NewParser(disk).file_analyses
    /\ dependency_graph = NewParser(disk).dependency_graph
    /\ reverse_dependency_graph = [dep \in {} |-> {}]
    /\ stats = NewParser(disk).stats
    /\ ret = NoCall
    /\ mode \in Modes
    /\ pc = "START"
    /\ executed = <<>>
    /\ changed_files \in ChangedFileLists(disk)
    /\ code_issues = <<>>
    /\ artifacts = <<>>
    /\ workspace = <<>>
    /\ NoDiagram
    /\ calls = <<>>

\* the conditional edge out of START
Start ==
    /\ pc = "START"
    /\ pc' = route_start(mode)
    /\ UNCHANGED <<disk, edits, parserVars, ret, mode, executed, changed_files,
                   code_issues, artifacts, workspace, diagramVars, calls>>

(* architect_node.  The architecture map is empty when the graph of the    *)
(* tracked files is; the heatmap always has its header lines.  An artifact *)
(* file holds the id of the artifact written to it.                        *)
ArchitectNode ==
    LET g == get_dependency_graph(NewParser(disk), disk,
                                  [files |-> ls_files(disk), none |-> FALSE])
        dep_graph_code == g.val # <<>>
        w1 == IF dep_graph_code
              THEN save_artifact(workspace, "arch_dependency_graph", "mmd", "dependency_graph")
              ELSE [files |-> workspace, val |-> <<>>]
        w2 == save_artifact(w1.files, "arch_complexity_map", "mmd", "complexity_heatmap")
        w3 == save_artifact(w2.files, "arch_overview_doc", "md", "architecture_overview")
        new_artifacts ==
            (IF dep_graph_code
             THEN <<Artifact("arch_dependency_graph", "diagram", w1.val, "architect")>>
             ELSE <<>>)
            \o <<Artifact("arch_complexity_map", "diagram", w2.val, "architect"),
                 Artifact("arch_overview_doc", "markdown_doc", w3.val, "architect")>>
    IN  /\ pc = "architect"
        /\ SetParser(g.ps)
        /\ workspace' = w3.files
        /\ artifacts' = artifacts \o new_artifacts
        /\ executed' = Append(executed, "architect")
        /\ pc' = "steward"
        /\ UNCHANGED <<disk, edits, ret, mode, changed_files, code_issues, diagramVars, calls>>

\* as graph_targets, had line 53 built the graph over all tracked files
graph_targets_tracked(changed, d) == ls_files(d)

\* line 53: the files steward builds the graph over, the changed files
graph_targets(changed, d) == changed

\* steward_node; ret keeps the cycles find_circular_dependencies returned
StewardNode ==
    /\ pc = "steward"
    /\ IF changed_files = <<>>
       THEN /\ SetParser(NewParser(disk))
            /\ code_issues' = <<>>
            /\ UNCHANGED <<ret, artifacts, workspace>>
       ELSE LET g == get_dependency_graph(NewParser(disk), disk,
                                          [files |-> graph_targets(changed_files, disk),
                                           none |-> FALSE])
                r == steward_files(g.ps, disk, changed_files, 1, <<>>)
            IN  \E cycles \in find_circular_dependencies(r.ps.dependency_graph) :
                    LET issues_found ==
                            r.val \o circular_dependency_issues(cycles, changed_files)
                        w == save_artifact(workspace, "steward_report", "md", "")
                    IN  /\ SetParser(r.ps)
                        /\ ret' = [op |-> "find_circular_dependencies", arg |-> <<>>,
                                   val |-> cycles]
                        /\ code_issues' = issues_found
                        /\ workspace' = w.files
                        /\ artifacts' = Append(artifacts,
                               Artifact("steward_report", "markdown_doc", w.val, "steward"))
    /\ executed' = Append(executed, "steward")
    /\ pc' = route_steward(mode)
    /\ UNCHANGED <<disk, edits, mode, changed_files, diagramVars, calls>>

\* tactician_node
TacticianNode ==
    LET w == save_artifact(workspace, "git_instructions", "md", "")
    IN  /\ pc = "tactician"
        /\ workspace' = w.files
        /\ artifacts' = Append(artifacts,
               Artifact("git_instructions", "markdown_doc", w.val, "tactician"))
        /\ executed' = Append(executed, "tactician")
        /\ pc' = route_tactician(mode)
        /\ UNCHANGED <<disk, edits, parserVars, ret, mode, changed_files, code_issues,
                       diagramVars, calls>>

\* _generate_commit_message; staged: there are staged changes to describe
_generate_commit_message(files, staged) ==
    IF ~staged THEN [files |-> files, val |-> <<>>]
    ELSE LET w == save_artifact(files, "commit_message", "txt", "commit_message")
             doc_path == <<".gitworkspace/commit_docs", "commit", "md">>
         IN  [files |-> Put(Put(w.files, <<".", "COMMIT_MESSAGE", "txt">>, "commit_message"),
                            doc_path, "commit_documentation"),
              val |-> <<Artifact("commit_message", "commit_msg", w.val, "scribe"),
                        Artifact("commit_documentation", "commit_doc", doc_path, "scribe")>>]

\* _generate_system_documentation
_generate_system_documentation(files) ==
    LET w == save_artifact(files, "system_docs", "md", "documentation")
    IN  [files |-> Put(w.files, <<".", "CODE_DOCS", "md">>, "system_docs"),
         val |-> <<Artifact("system_docs", "markdown_doc", w.val, "scribe")>>]

\* _generate_pr_documentation; commits: the branch has commits to document
_generate_pr_documentation(files, commits) ==
    IF ~commits THEN [files |-> files, val |-> <<>>]
    ELSE LET w == save_artifact(files, "pr_document", "md", "pr_documentation")
         IN  [files |-> Put(w.files, <<".", "PR_Document", "md">>, "pr_document"),
              val |-> <<Artifact("pr_document", "markdown_doc", w.val, "scribe")>>]

(* scribe_node.  In a mode it does not know it returns the state it was    *)
(* given, and the registry's reducer, operator.add, appends the artifacts  *)
(* of that state to the registry.                                          *)
ScribeNode(found) ==
    LET mode_ == state_get_mode(mode, "pr")
        r == IF mode_ = "commit" THEN _generate_commit_message(workspace, found)
             ELSE IF mode_ = "docs" THEN _generate_system_documentation(workspace)
             ELSE IF mode_ = "pr" THEN _generate_pr_documentation(workspace, found)
             ELSE [files |-> workspace, val |-> artifacts]
    IN  /\ pc = "scribe"
        /\ workspace' = r.files
        /\ artifacts' = artifacts \o r.val
        /\ executed' = Append(executed, "scribe")
        /\ pc' = route_scribe(mode)
        /\ UNCHANGED <<disk, edits, parserVars, ret, mode, changed_files, code_issues,
                       diagramVars, calls>>

NextRun ==
    \/ Start
    \/ ArchitectNode
    \/ StewardNode
    \/ TacticianNode
    \/ \E found \in BOOLEAN : ScribeNode(found)

SpecRun == InitRun /\ [][NextRun]_vars

(* app.stream runs the graph until it is at END: while it is not, the node *)
(* or edge that is due is run, which moves the run on.  Every step of      *)
(* NextRun is such a move, and one is possible exactly when pc is not END. *)
RunDue == pc # "END" /\ pc' \in {"architect", "steward", "tactician", "scribe", "END"}

SpecRunLive == SpecRun /\ WF_pc(RunDue)

----------------------------------------------------------------------------
(* Properties of the parser *)

\* the files reachable from the set S over one or more edges of the map r
RECURSIVE Reachable(_, _, _)
Reachable(r, S, seen) ==
    LET next == UNION {IF x \in DOMAIN r THEN r[x] ELSE {} : x \in S}
    IN  IF next \subseteq seen THEN seen ELSE Reachable(r, next \ seen, seen \cup next)

Forward == [k \in Keys(dependency_graph) |-> Get(dependency_graph, k)]
OnCycle(f) == f \in Reachable(Forward, {f}, {})

\* C1: get_file_impact_analysis(F) never lists F among the direct or the
\* transitive dependents of F and does not count it in total_impact.
C1_ImpactExcludesFile ==
    ret.op = "get_file_impact_analysis" =>
        LET F == ret.arg
            listed == Range(ret.val.direct_dependents)
                      \cup Range(ret.val.transitive_dependents)
        IN  /\ F \notin listed
            /\ ret.val.total_impact = Cardinality(listed \ {F})

\* C2: every file that lies on a cycle of the forward graph appears in one
\* of the cycles find_circular_dependencies returns.
C2_AllCyclesReported ==
    ret.op = "find_circular_dependencies" =>
        \A f \in Keys(dependency_graph) :
            OnCycle(f) => \E i \in DOMAIN ret.val : InSeq(ret.val[i], f)

\* C3: with a.py = `import os; from . import b; b.f()` next to b.py, once
\* both are analyzed and the graph is built: os is flagged unused, a.py
\* depends on b.py, and b.py has a.py as its one direct dependent.
C3_SiblingScenario ==
    \A pair \in {<<A_py, B_py>>, <<PkgA_py, PkgB_py>>} :
        LET a == Rel(pair[1])
            b == Rel(pair[2])
            impact == get_file_impact_analysis(reverse_dependency_graph, b)
        IN  (/\ disk[pair[1]] = SrcScenario /\ disk[pair[2]] = SrcPlain
             /\ Has(file_analyses, a) /\ Has(file_analyses, b)
             /\ Has(dependency_graph, a) /\ Has(dependency_graph, b))
            => /\ \E i \in DOMAIN unused_imports(Get(file_analyses, a)) :
                     unused_imports(Get(file_analyses, a))[i].module = <<"os">>
               /\ b \in Get(file_analyses, a).dependencies
               /\ b \in Get(dependency_graph, a)
               /\ impact.direct_dependents = <<a>>
               /\ impact.total_impact = 1

\* C4: after analyze_file(p) the cache entry under p's root-relative path is
\* the FileAnalysis the call returned.
C4_CacheHoldsReturned ==
    ret.op = "analyze_file" =>
        /\ Has(file_analyses, Rel(ret.arg.p))
        /\ Get(file_analyses, Rel(ret.arg.p)) = ret.val

ForwardKeysStay ==
    \A k \in Keys(dependency_graph) : Has(dependency_graph', k)
ForwardEdgesStay ==
    \A k \in Keys(dependency_graph) :
        Has(dependency_graph', k) /\ Get(dependency_graph, k) \subseteq Get(dependency_graph', k)
ReverseEdgesStay ==
    \A k \in DOMAIN reverse_dependency_graph :
        /\ k \in DOMAIN reverse_dependency_graph'
        /\ reverse_dependency_graph[k] \subseteq reverse_dependency_graph'[k]

\* C5 as claimed: an edge once in the forward map or in the reverse map is
\* never removed.
C5_MapsOnlyGrow == [][ForwardEdgesStay /\ ReverseEdgesStay]_vars

\* C5 as amended: a reverse edge is never removed and a forward key stays a
\* key; a forward entry that changes becomes the dependency set of the
\* file's cached analysis.
C5_ReverseOnlyGrows ==
    [][/\ ReverseEdgesStay
       /\ ForwardKeysStay
       /\ \A k \in Keys(dependency_graph) :
             \/ Get(dependency_graph', k) = Get(dependency_graph, k)
             \/ /\ Has(file_analyses', k)
                /\ Get(dependency_graph', k) = Get(file_analyses', k).dependencies]_vars

\* a forward edge has been dropped by a rebuild and its reverse edge is kept
C5_Witness ==
    \E a \in Keys(dependency_graph) :
        \E b \in DOMAIN reverse_dependency_graph :
            /\ a \in reverse_dependency_graph[b]
            /\ b \notin Get(dependency_graph, a)
            /\ ret.op = "get_dependency_graph"

\* C6: after get_dependency_graph(files), every requested file that exists
\* is cached, has its sorted dependencies in the returned mapping, has its
\* dependency set as forward entry and is a dependent of each dependency.
C6_GraphCoversRequested ==
    (ret.op = "get_dependency_graph" /\ ~ret.arg.none) =>
        \A i \in DOMAIN ret.arg.files :
            LET f == ret.arg.files[i] IN
            Exists(disk, f.p) =>
                /\ Has(file_analyses, Rel(f.p))
                /\ LET deps == Get(file_analyses, Rel(f.p)).dependencies
                   IN  /\ Has(ret.val, f)
                       /\ Get(ret.val, f) = sorted(deps)
                       /\ Has(dependency_graph, f)
                       /\ Get(dependency_graph, f) = deps
                       /\ \A dep \in deps :
                             /\ dep \in DOMAIN reverse_dependency_graph
                             /\ f \in reverse_dependency_graph[dep]

----------------------------------------------------------------------------
(* Properties of the diagrams *)

(* C7: node identifiers are collision-free: two distinct file paths        *)
(* rendered in the same diagram never receive the same node identifier.    *)
C7_IdsCollisionFree ==
    \A f, g \in DOMAIN node_ids : f # g => node_ids[f] # node_ids[g]

----------------------------------------------------------------------------
(* Properties of the workflow *)

\* steward has audited the changed files of the run
StewardRan == InSeq(executed, "steward") /\ changed_files # <<>>

\* the issues of one type steward reported for a file
FileIssues(type, file) ==
    SelectSeq(code_issues, LAMBDA issue : issue.type = type /\ issue.file = file)

\* the non-future imports of an analysis whose imported names contain '*'
StarImports(analysis) ==
    SelectSeq(analysis.imports,
              LAMBDA imp : InSeq(imp.names, <<"*">>) /\ ~imp.is_future_import)

(* C8: for every target file whose analysis has no errors, steward emits   *)
(* one info wildcard_import issue for each non-future import whose names   *)
(* contain '*', whether the import is absolute or relative, at the top     *)
(* level or inside an if/try block, and none for any other import.         *)
C8_WildcardIssuePerStarImport ==
    StewardRan =>
        \A k \in DOMAIN changed_files :
            LET f == changed_files[k] IN
            (Has(file_analyses, f) /\ Get(file_analyses, f).errors = <<>>) =>
                /\ Len(FileIssues("wildcard_import", f))
                       = Len(StarImports(Get(file_analyses, f)))
                /\ \A i \in DOMAIN FileIssues("wildcard_import", f) :
                       FileIssues("wildcard_import", f)[i].severity = "info"

\* the circular_dependency issues steward reported
CircularIssues ==
    SelectSeq(code_issues, LAMBDA issue : issue.type = "circular_dependency")

(* C9: steward emits exactly one warning circular_dependency issue, with   *)
(* the cycle path in its details and no file attribute, for each cycle     *)
(* find_circular_dependencies returned that contains a target file, and    *)
(* none for a returned cycle that contains no target file.                 *)
C9_OneIssuePerTargetCycle ==
    (StewardRan /\ ret.op = "find_circular_dependencies") =>
        /\ \A k \in DOMAIN ret.val :
               Cardinality({j \in DOMAIN CircularIssues :
                               CircularIssues[j].details.cycle = ret.val[k]})
                   = IF Range(ret.val[k]) \cap Range(changed_files) # {} THEN 1 ELSE 0
        /\ \A j \in DOMAIN CircularIssues :
               /\ CircularIssues[j].severity = "warning"
               /\ "file" \notin DOMAIN CircularIssues[j]
               /\ InSeq(ret.val, CircularIssues[j].details.cycle)

\* steward reported a cycle that leaves one of the changed files out
C9_Witness ==
    /\ StewardRan
    /\ ret.op = "find_circular_dependencies"
    /\ CircularIssues # <<>>
    /\ \E k \in DOMAIN changed_files :
           ~InSeq(CircularIssues[1].details.cycle, changed_files[k])

(* C10: every artifact is persisted to its own file: at the end of the run *)
(* the file of each registered artifact holds what its node wrote, and two *)
(* different artifacts never share a path.                                 *)
C10_ArtifactsKeepOwnFile ==
    pc = "END" =>
        /\ \A i \in DOMAIN artifacts :
               /\ Has(workspace, artifacts[i].file_path)
               /\ Get(workspace, artifacts[i].file_path) = artifacts[i].id
        /\ \A i, j \in DOMAIN artifacts :
               artifacts[i].id # artifacts[j].id
                   => artifacts[i].file_path # artifacts[j].file_path

----------------------------------------------------------------------------
(* Properties of the index *)

\* the dotted module name of each file of the tree
DottedName(p) ==
    CASE p = A_py -> <<"a">>
      [] p = B_py -> <<"b">>
      [] p = C_py -> <<"c">>
      [] p = Main_py -> <<"main">>
      [] p = Pkg_py -> <<"pkg">>
      [] p = PkgInit_py -> <<"pkg">>
      [] p = PkgA_py -> <<"pkg", "a">>
      [] p = PkgB_py -> <<"pkg", "b">>
      [] p = VenvA_py -> <<"venv", "a">>

\* a .py file matched by no ignore pattern and not above max_file_size
Eligible(d, p) == Exists(d, p) /\ d[p].kind # "large" /\ "venv" \notin Range(p)

(* C11: after indexing, every eligible file with a non-empty module name   *)
(* is in the module map under that name, a package's __init__.py under the *)
(* package name; no eligible file is displaced by another eligible file.   *)
C11_EveryEligibleFileIndexed ==
    ret.op = "__init__" =>
        \A p \in Paths :
            Eligible(disk, p) =>
                /\ Has(module_map, DottedName(p))
                /\ Get(module_map, DottedName(p)) = p

----------------------------------------------------------------------------
(* Properties of the steward's per-file rules *)

\* the file cannot be analyzed: it is missing or ast.parse rejects it
Unparsable(f) ==
    ~Exists(disk, f.p) \/ disk[f.p].kind \in {"syntax_error", "value_error"}

\* the top-level absolute wildcard imports a source file holds
TopLevelStars(src) ==
    SelectSeq(src.imports,
              LAMBDA node : /\ node.node = "ImportFrom" /\ node.level = 0
                            /\ node.parent = "Module"
                            /\ \E i \in DOMAIN node.names : node.names[i].name = <<"*">>)

(* C12: for every target file whose analysis has errors steward emits     *)
(* exactly one critical syntax_error issue and no other issue naming the   *)
(* file, and goes on with the next file: the files after it still get      *)
(* their own issues.                                                       *)
C12_ErrorFileOnlySyntaxIssue ==
    StewardRan =>
        \A k \in DOMAIN changed_files :
            LET f == changed_files[k] IN
            IF Unparsable(f)
            THEN /\ Len(FileIssues("syntax_error", f)) = 1
                 /\ FileIssues("syntax_error", f)[1].severity = "critical"
                 /\ \A i \in DOMAIN code_issues :
                        ("file" \in DOMAIN code_issues[i] /\ code_issues[i].file = f)
                            => code_issues[i].type = "syntax_error"
            ELSE /\ FileIssues("syntax_error", f) = <<>>
                 /\ Len(FileIssues("wildcard_import", f)) = Len(TopLevelStars(disk[f.p]))

\* steward met an unparsable file and reported a later file's wildcard import
C12_Witness ==
    /\ StewardRan
    /\ \E j, k \in DOMAIN changed_files :
           /\ j < k
           /\ Unparsable(changed_files[j])
           /\ FileIssues("syntax_error", changed_files[j]) # <<>>
           /\ FileIssues("wildcard_import", changed_files[k]) # <<>>

----------------------------------------------------------------------------
(* Properties of the graph queries *)

\* the call that has just returned
Returned(op) == ret.op = op

\* a list that walks a cycle of the forward map and names its start twice
GenuineCycle(cycle) ==
    /\ Len(cycle) >= 2
    /\ cycle[1] = cycle[Len(cycle)]
    /\ \A i \in 1..(Len(cycle) - 1) :
           /\ cycle[i] \in DOMAIN Forward
           /\ cycle[i + 1] \in Forward[cycle[i]]
    /\ \A i, j \in 1..(Len(cycle) - 1) : i # j => cycle[i] # cycle[j]

(* C13: every list find_circular_dependencies returns is a genuine cycle  *)
(* of the forward graph: first and last element equal, each consecutive   *)
(* pair a forward edge, the elements before the last pairwise distinct;   *)
(* on a forward graph without cycles the result is empty.                 *)
C13_ReturnedCyclesGenuine ==
    Returned("find_circular_dependencies") =>
        /\ \A k \in DOMAIN ret.val : GenuineCycle(ret.val[k])
        /\ (\A f \in DOMAIN Forward : ~OnCycle(f)) => ret.val = <<>>

\* a cycle was returned that starts after the file the search started from
C13_Witness ==
    /\ Returned("find_circular_dependencies")
    /\ ret.val # <<>>
    /\ ret.val[1][1] # dependency_graph[1].k

\* the forward graph is one simple cycle over two or more files
SimpleCycle ==
    /\ Cardinality(DOMAIN Forward) >= 2
    /\ \A f \in DOMAIN Forward :
           /\ Cardinality(Forward[f]) = 1
           /\ Forward[f] \subseteq DOMAIN Forward
           /\ Reachable(Forward, {f}, {}) = DOMAIN Forward

(* C14: when the forward graph is exactly one simple cycle over n >= 2    *)
(* files, find_circular_dependencies returns exactly one cycle and it     *)
(* contains exactly those files, whichever file the iteration starts from. *)
C14_SimpleCycleReportedOnce ==
    (Returned("find_circular_dependencies") /\ SimpleCycle) =>
        /\ Len(ret.val) = 1
        /\ Range(ret.val[1]) = DOMAIN Forward

\* the cycle of three files was searched starting from c.py
C14_Witness ==
    /\ Returned("find_circular_dependencies")
    /\ SimpleCycle
    /\ Cardinality(DOMAIN Forward) = 3
    /\ dependency_graph[1].k = Rel(C_py)
    /\ Len(ret.val) = 1

\* the position of a path string in Python's order
Rank(f) == CHOOSE i \in DOMAIN SortedOrder : SortedOrder[i] = f

\* the list holds exactly the files of S, in ascending order
SortedListOf(list, S) ==
    /\ Range(list) = S
    /\ Len(list) = Cardinality(S)
    /\ \A i, j \in DOMAIN list : i < j => Rank(list[i]) < Rank(list[j])

(* C15: get_file_impact_analysis(F) returns the sorted reverse-map entry  *)
(* of F as direct dependents, the sorted rest of the files reachable over *)
(* one or more reverse edges as transitive dependents, and the size of    *)
(* the reachable set as total, the sum of the two lengths; a file with no *)
(* entry gets empty lists and total 0.                                    *)
C15_ImpactIsReverseClosure ==
    Returned("get_file_impact_analysis") =>
        LET F == ret.arg
            r == reverse_dependency_graph
            direct == IF F \in DOMAIN r THEN r[F] ELSE {}
            reach == Reachable(r, {F}, {})
        IN  /\ ret.val.file = F
            /\ SortedListOf(ret.val.direct_dependents, direct)
            /\ SortedListOf(ret.val.transitive_dependents, reach \ direct)
            /\ ret.val.total_impact = Cardinality(reach)
            /\ ret.val.total_impact
                   = Len(ret.val.direct_dependents) + Len(ret.val.transitive_dependents)

\* the impact of a file with a direct and a further, transitive dependent
C15_Witness ==
    /\ Returned("get_file_impact_analysis")
    /\ ret.val.direct_dependents # <<>>
    /\ ret.val.transitive_dependents # <<>>
    /\ ret.arg \notin Range(ret.val.transitive_dependents)

(* C16: a relative import from a module of k segments is unresolved when   *)
(* its level exceeds k; otherwise the base is the first k - level segments *)
(* and the target is base.module, or whichever of the two is not empty,    *)
(* and the import is unresolved when both are empty.  Every module of the  *)
(* nested tree is in the module map, so the file returned names the        *)
(* target.                                                                 *)
C16_RelativeTarget ==
    ret.op = "_resolve_import" /\ ret.arg.imp.level > 0 =>
        LET imp == ret.arg.imp
            k == Len(ret.arg.current_module)
            base == SubSeq(ret.arg.current_module, 1, k - imp.level)
            target_module == IF base # <<>> /\ imp.module # <<>> THEN base \o imp.module
                             ELSE IF base # <<>> THEN base
                             ELSE imp.module
        IN  IF imp.level > k THEN ret.val = <<>>
            ELSE IF target_module = <<>> THEN ret.val = <<>>
            ELSE ret.val # <<>> /\ _path_to_module(ret.val) = target_module

\* from ..b import a in module a.b.a resolves to a/b.py
C16_Witness ==
    /\ ret.op = "_resolve_import"
    /\ ret.arg.current_module = <<"a", "b", "a">>
    /\ ret.arg.imp.level = 2
    /\ ret.arg.imp.module = <<"b">>
    /\ ret.val = <<"a", "b.py">>

(* C17: find_unused_imports(file) returns exactly the imports of the file, *)
(* as the parser has analyzed it, that are not wildcard imports and bind   *)
(* no name (imported name or alias target) that the file references; it    *)
(* returns the empty list for a file that did not parse or does not exist. *)
UnusedOf(analysis) ==
    SelectSeq(analysis.imports,
              LAMBDA imp :
                  /\ \A i \in DOMAIN imp.names : imp.names[i] # <<"*">>
                  /\ \A n \in analysis.ast_tree.names :
                        /\ \A i \in DOMAIN imp.names : imp.names[i] # n
                        /\ \A i \in DOMAIN imp.aliases : imp.aliases[i].asname # n)
C17_UnusedImportsExact ==
    ret.op = "find_unused_imports" =>
        LET file == Rel(ret.arg.p)
        IN  ret.val = IF Has(file_analyses, file)
                         /\ Get(file_analyses, file).ast_tree.kind # "none"
                      THEN UnusedOf(Get(file_analyses, file))
                      ELSE <<>>

(* C18: generate_architecture_map returns the empty string when the graph  *)
(* it obtains is empty; otherwise every edge of the graph is one edge line *)
(* of the text, and every endpoint of an edge is declared by one node      *)
(* line, which lies inside one section.                                    *)
MapGraph == get_dependency_graph(Parser, disk, ret.arg).val
GraphEdges(graph) ==
    UNION {{<<graph[i].k, t>> : t \in Range(graph[i].v)} : i \in DOMAIN graph}
NodeId(file) == _clean_id(PathStr(file))
\* the subgraph line that opens the section line j lies in, 0 when in none
OpenSection(lines, j) ==
    LET before == {s \in 1..(j - 1) :
                     /\ lines[s].kind = "subgraph"
                     /\ \A e \in (s + 1)..(j - 1) : lines[e].kind # "end"}
    IN  IF before = {} THEN 0 ELSE CHOOSE s \in before : \A t \in before : t <= s
C18_MapShowsGraph ==
    ret.op = "generate_architecture_map" =>
        IF MapGraph = <<>> THEN ret.val = <<>>
        ELSE /\ \A edge \in GraphEdges(MapGraph) :
                  Cardinality({j \in DOMAIN ret.val :
                                 ret.val[j] = EdgeLine(NodeId(edge[1]), NodeId(edge[2]))}) = 1
             /\ \A edge \in GraphEdges(MapGraph) : \A n \in {edge[1], edge[2]} :
                  LET decl == {j \in DOMAIN ret.val :
                                 /\ ret.val[j].kind = "node"
                                 /\ ret.val[j].node_id = NodeId(n)}
                  IN  /\ Cardinality(decl) = 1
                      /\ \A j \in decl :
                           /\ OpenSection(ret.val, j) # 0
                           /\ ret.val[OpenSection(ret.val, j)].section
                                = _classify_node(PathStr(n))

\* the map of [main.py] alone, where main.py imports a: a.py is a target only,
\* declared in section Other, and main.py is declared in section Core
C18_Witness ==
    /\ ret.op = "generate_architecture_map"
    /\ ret.arg.files = <<Rel(Main_py)>>
    /\ GraphEdges(MapGraph) = {<<Rel(Main_py), Rel(A_py)>>}
    /\ \E j \in DOMAIN ret.val : ret.val[j] = EdgeLine(NodeId(Rel(Main_py)), NodeId(Rel(A_py)))
    /\ \E j \in DOMAIN ret.val : ret.val[j] = SubgraphLine("Core")
    /\ \E j \in DOMAIN ret.val : ret.val[j] = SubgraphLine("Other")

----------------------------------------------------------------------------
(* Properties of the thresholds and of the complexity *)

\* the issues of one type steward reported for a file under one name
NamedIssues(type, file, name) ==
    SelectSeq(FileIssues(type, file), LAMBDA issue : issue.message[1] = name)

(* C19: for every target file without errors, steward emits one warning    *)
(* high_complexity issue with threshold 10 for each function of complexity *)
(* above 10, one warning god_class issue naming the class for each class    *)
(* of more than 15 methods, and none for a function of complexity at most   *)
(* 10 or a class of at most 15 methods.                                     *)
C19_ThresholdIssues ==
    StewardRan =>
        \A k \in DOMAIN changed_files :
            LET f == changed_files[k] IN
            (Has(file_analyses, f) /\ Get(file_analyses, f).errors = <<>>) =>
                LET analysis == Get(file_analyses, f) IN
                /\ \A j \in DOMAIN analysis.functions :
                       Len(NamedIssues("high_complexity", f, analysis.functions[j].name))
                         = Cardinality({i \in DOMAIN analysis.functions :
                              /\ analysis.functions[i].name = analysis.functions[j].name
                              /\ analysis.functions[i].complexity > 10})
                /\ \A j \in DOMAIN analysis.classes :
                       Len(NamedIssues("god_class", f, analysis.classes[j].name))
                         = IF Len(analysis.classes[j].methods) > 15 THEN 1 ELSE 0
                /\ Len(FileIssues("high_complexity", f))
                     = Cardinality({i \in DOMAIN analysis.functions :
                                      analysis.functions[i].complexity > 10})
                /\ Len(FileIssues("god_class", f))
                     = Cardinality({i \in DOMAIN analysis.classes :
                                      Len(analysis.classes[i].methods) > 15})
                /\ \A i \in DOMAIN FileIssues("high_complexity", f) :
                       /\ FileIssues("high_complexity", f)[i].severity = "warning"
                       /\ FileIssues("high_complexity", f)[i].threshold = 10
                /\ \A i \in DOMAIN FileIssues("god_class", f) :
                       FileIssues("god_class", f)[i].severity = "warning"

\* steward reported f and h of a.py but not g, and class God of b.py but not Big
C19_Witness ==
    /\ StewardRan
    /\ disk[A_py] = SrcComplex
    /\ disk[B_py] = SrcClasses
    /\ Len(FileIssues("high_complexity", Rel(A_py))) = 2
    /\ NamedIssues("high_complexity", Rel(A_py), "g") = <<>>
    /\ Len(NamedIssues("god_class", Rel(B_py), "God")) = 1
    /\ NamedIssues("god_class", Rel(B_py), "Big") = <<>>

\* the nodes of a subtree, depth first
RECURSIVE SubtreeNodes(_)
SubtreeNodes(node) ==
    <<node>> \o Flatten([i \in DOMAIN node.children |-> SubtreeNodes(node.children[i])])
OfType(nodes, types) == SelectSeq(nodes, LAMBDA node : node.type \in types)
\* the complexity of a function definition, counted over its subtree
Counted(node) ==
    LET nodes == SubtreeNodes(node)
        chains == OfType(nodes, {"BoolOp"})
        clauses == OfType(nodes, {"comprehension"})
    IN  1 + Len(OfType(nodes, {"If", "While", "For", "AsyncFor"}))
          + Len(OfType(nodes, {"ExceptHandler"}))
          + Sum([i \in DOMAIN chains |-> chains[i].n - 1])
          + Len(clauses)
          + Sum([i \in DOMAIN clauses |-> clauses[i].n])
\* the function definitions of a file, with what the claim says of each
CountedFunctions(src) ==
    LET nodes == OfType(SubtreeNodes(Module(src.body)),
                        {"FunctionDef", "AsyncFunctionDef"})
    IN  [i \in DOMAIN nodes |-> [name |-> nodes[i].name, complexity |-> Counted(nodes[i])]]
Occurrences(s, x) == Cardinality({i \in DOMAIN s : s[i] = x})

(* C20: the complexity recorded for every function definition is 1 + the   *)
(* if/while/for/async-for nodes + the exception handlers + the operands    *)
(* beyond the first of every and/or chain + the comprehension clauses +    *)
(* their filter conditions, over the function's subtree; it is at least 1, *)
(* 1 without branches and 3 for one if on a two-operand and.  The file's   *)
(* cyclomatic_complexity is the sum of the recorded complexities, 0        *)
(* without functions.                                                      *)
C20_ComplexityFormula ==
    (ret.op = "analyze_file" /\ ret.val.errors = <<>>) =>
        LET src == disk[ret.arg.p]
            functions == ret.val.functions
        IN  /\ Len(functions) = Len(CountedFunctions(src))
            /\ \A x \in Range(functions) \cup Range(CountedFunctions(src)) :
                   Occurrences(functions, x) = Occurrences(CountedFunctions(src), x)
            /\ \A i \in DOMAIN functions : functions[i].complexity >= 1
            /\ src.body = <<FunctionDef("f", <<Pass>>)>> => functions[1].complexity = 1
            /\ src.body = <<FunctionDef("f", <<If(BoolOp(<<Name, Name>>), <<Pass>>)>>)>>
                   => functions[1].complexity = 3
            /\ ret.val.metrics.cyclomatic_complexity
                   = Sum([i \in DOMAIN functions |-> functions[i].complexity])
            /\ functions = <<>> => ret.val.metrics.cyclomatic_complexity = 0

\* f with one if on a two-operand and, next to h with one while: 3 + 2
C20_Witness ==
    /\ ret.op = "analyze_file"
    /\ ret.val.errors = <<>>
    /\ disk[A_py].body = <<FunctionDef("f", <<If(BoolOp(<<Name, Name>>), <<Pass>>)>>),
                           AsyncFunctionDef("h", <<While(Name, <<Pass>>)>>)>>
    /\ ret.val.functions[1].complexity = 3
    /\ ret.val.metrics.cyclomatic_complexity = 5

----------------------------------------------------------------------------
(* Properties of the lookup and of the classification of imports *)

\* the first imported name, the wildcard marker skipped, that names a
\* submodule of target in the module map; 0 when there is none
FirstSubmodule(mm, target, names) ==
    LET matches == {i \in DOMAIN names :
                      names[i] # <<"*">> /\ Has(mm, target \o names[i])}
    IN  IF matches = {} THEN 0 ELSE CHOOSE i \in matches : \A j \in matches : i <= j

(* C21: _resolve_import returns the first match of (1) the target module,  *)
(* (2) the target module with the package-init suffix, (3) target.name for *)
(* each imported name in order, '*' skipped, and unresolved when nothing   *)
(* matches; an unresolved import adds no dependency and no error, so the   *)
(* dependencies of a file are at most as many as its import statements.    *)
C21_LookupOrder ==
    /\ ret.op = "_resolve_import" =>
          LET target == ret.arg.imp.module
              names == ret.arg.imp.names
              init == target \o <<"__init__">>
              k == FirstSubmodule(module_map, target, names)
          IN  /\ Has(module_map, target) => ret.val = Get(module_map, target)
              /\ (~Has(module_map, target) /\ Has(module_map, init))
                    => ret.val = Get(module_map, init)
              /\ (~Has(module_map, target) /\ ~Has(module_map, init) /\ k # 0)
                    => ret.val = Get(module_map, target \o names[k])
              /\ (~Has(module_map, target) /\ ~Has(module_map, init) /\ k = 0)
                    => ret.val = <<>>
    /\ (ret.op = "analyze_file" /\ disk[ret.arg.p].kind = "ok") =>
          LET imports == ret.val.imports
              resolved == [i \in DOMAIN imports |->
                             _resolve_import(module_map, imports[i], ret.val.module_name)]
          IN  /\ ret.val.errors = <<>>
              /\ Cardinality(ret.val.dependencies) <= Len(imports)
              /\ \A dep \in ret.val.dependencies :
                     \E i \in DOMAIN imports : dep = Rel(resolved[i])
              /\ (\A i \in DOMAIN imports : resolved[i] = <<>>)
                    => ret.val.dependencies = {}

\* `from pkg import b, a` resolved to pkg/__init__/__init__.py although
\* pkg/a.py and pkg/b.py are there, pkg.py not
C21_Witness ==
    /\ ret.op = "_resolve_import"
    /\ ret.arg.imp.names = <<<<"b">>, <<"a">>>>
    /\ ~Has(module_map, <<"pkg">>)
    /\ Has(module_map, <<"pkg", "b">>)
    /\ Has(module_map, <<"pkg", "a">>)
    /\ ret.val = PkgInitInit_py

(* C22: every import statement that is nested inside an if or a try, in    *)
(* any of its branches, is classified conditional and records the kind of  *)
(* the enclosing construct; an import at module level is never conditional *)
(* and records no kind.  A statement whose parent node is an If, a Try or  *)
(* an ExceptHandler (which only occurs inside a Try) is so nested.         *)
C22_NestedImportsConditional ==
    (ret # NoCall /\ ret.op = "analyze_file" /\ disk[A_py].kind = "ok"
        /\ Len(disk[A_py].imports) = 1) =>
        LET node == disk[A_py].imports[1]
        IN  \A i \in DOMAIN ret.val.imports :
                LET imp == ret.val.imports[i]
                IN  /\ node.parent \in {"If", "Try", "ExceptHandler"} =>
                        /\ imp.import_type = "conditional"
                        /\ imp.parent_node_type \in {"If", "Try"}
                    /\ node.parent = "Module" =>
                        /\ imp.import_type # "conditional"
                        /\ imp.parent_node_type = "None"

----------------------------------------------------------------------------
(* Properties of the nodes and routes of a workflow run *)

(* C28: once steward_node has run, the forward and the reverse map hold   *)
(* only edges whose source is a changed file.  So the total_impact of any  *)
(* file is at most the number of changed files, no high_impact issue is    *)
(* found while at most 5 files are changed, and a cycle reported as a      *)
(* circular_dependency is made up of changed files only.                   *)
C28_EdgesFromTargets ==
    StewardRan =>
        LET targets == Range(changed_files)
            r == reverse_dependency_graph
        IN  /\ Keys(dependency_graph) \subseteq targets
            /\ \A b \in DOMAIN r : r[b] \subseteq targets
            /\ \A f \in {Rel(p) : p \in Paths} :
                  get_file_impact_analysis(r, f).total_impact <= Cardinality(targets)
            /\ Cardinality(targets) <= THRESHOLDS.high_impact =>
                  \A i \in DOMAIN code_issues : code_issues[i].type # "high_impact"
            /\ \A j \in DOMAIN CircularIssues :
                  Range(CircularIssues[j].details.cycle) \subseteq targets

C28_Witness ==
    /\ StewardRan
    /\ CircularIssues # <<>>
    /\ \E f \in Range(ls_files(disk)) \ Range(changed_files) :
          /\ disk[f.p].kind = "ok"
          /\ disk[f.p].imports # <<>>
    /\ \E f \in Range(changed_files) :
          get_file_impact_analysis(reverse_dependency_graph, f).total_impact
              = Cardinality(Range(changed_files))

(* C23: when a run reaches scribe_node in mode pr or full, the node takes  *)
(* the path of the PR documentation: what it adds to the registry and to   *)
(* the workspace is what _generate_pr_documentation returns and writes.    *)
C23_ScribePrPath ==
    [][(pc = "scribe" /\ pc' # "scribe" /\ mode \in {"pr", "full"}) =>
        \E commits \in BOOLEAN :
            LET r == _generate_pr_documentation(workspace, commits)
            IN  /\ artifacts' = artifacts \o r.val
                /\ workspace' = r.files]_vars

\* the nodes a run in mode m is to visit, in order
NodeOrder(m) ==
    CASE m = "commit" -> <<"scribe">>
      [] m = "audit" -> <<"steward">>
      [] m = "pr" -> <<"steward", "scribe">>
      [] OTHER -> <<"architect", "steward", "tactician", "scribe">>

----------------------------------------------------------------------------
(* Properties of concurrent calls *)

(* C25: when calls of get_dependency_graph for different files run         *)
(* concurrently on one parser, the forward and the reverse update for the  *)
(* edges of a file take effect together: in no state does the forward      *)
(* entry of A hold B while the reverse entry of B lacks A.                 *)
C25_ForwardReverseTogether ==
    \A a \in Keys(dependency_graph) :
        \A b \in Get(dependency_graph, a) :
            /\ b \in DOMAIN reverse_dependency_graph
            /\ a \in reverse_dependency_graph[b]

----------------------------------------------------------------------------
(* Properties of the graph of a parser whose files do not change *)

(* C26: any two distinct cycles one call of find_circular_dependencies     *)
(* returns share no file, so no cycle is reported twice as two rotations,  *)
(* and the call returns no more cycles than the forward map has keys.      *)
C26_CyclesShareNoFile ==
    (ret.op = "find_circular_dependencies") =>
        /\ \A i, j \in DOMAIN ret.val :
              i # j => Range(ret.val[i]) \cap Range(ret.val[j]) = {}
        /\ Len(ret.val) <= Cardinality(Keys(dependency_graph))

C26_Witness ==
    /\ ret.op = "find_circular_dependencies"
    /\ Len(ret.val) = 2
    /\ Cardinality(Keys(dependency_graph)) = 4

(* C27: while no file changes, after any calls of analyze_file and         *)
(* get_dependency_graph the reverse map is the inverse of the forward map, *)
(* no file is in its own dependency set, every key of the forward map is a *)
(* key of the analysis cache, and every dependency is a file the module    *)
(* map records.                                                            *)
C27_GraphConsistent ==
    LET forward(a) == IF Has(dependency_graph, a) THEN Get(dependency_graph, a) ELSE {}
        reverse(b) == IF b \in DOMAIN reverse_dependency_graph
                      THEN reverse_dependency_graph[b] ELSE {}
        files == Keys(dependency_graph) \cup DOMAIN reverse_dependency_graph
                   \cup UNION {forward(a) : a \in Keys(dependency_graph)}
                   \cup UNION {reverse(b) : b \in DOMAIN reverse_dependency_graph}
    IN  /\ \A a, b \in files : a \in reverse(b) <=> b \in forward(a)
        /\ \A a \in files : a \notin forward(a)
        /\ Keys(dependency_graph) \subseteq Keys(file_analyses)
        /\ \A a \in files : forward(a) \subseteq {Rel(p) : p \in Known}

C27_Witness ==
    /\ disk[A_py].kind = "ok"
    /\ InSeq(disk[A_py].imports, Import(<<"a">>))
    /\ Has(dependency_graph, Rel(A_py))
    /\ Get(dependency_graph, Rel(A_py)) = {Rel(B_py)}
    /\ Rel(B_py) \in DOMAIN reverse_dependency_graph
    /\ Has(dependency_graph, Rel(B_py))
    /\ Rel(A_py) \in reverse_dependency_graph[Rel(B_py)]

----------------------------------------------------------------------------
(* Properties of the queries, statement by statement *)

QueryUnderWay == calls # <<>>

(* C29: get_file_impact_analysis and find_circular_dependencies only read: *)
(* from the call to the return of either, for any file, the analysis       *)
(* cache, the module map, the statistics and both maps stay as they are;   *)
(* no empty entry is made for a file in either map.                        *)
C29_QueriesReadOnly ==
    [][(QueryUnderWay \/ QueryUnderWay'
          \/ (ret = NoCall /\ ret' # NoCall /\ ret'.op = "get_file_impact_analysis"))
        => UNCHANGED parserVars]_vars

C29_Witness ==
    /\ ret.op = "get_file_impact_analysis"
    /\ ret.arg \notin DOMAIN reverse_dependency_graph
    /\ ~Has(dependency_graph, ret.arg)
    /\ dependency_graph # <<>>

(* C30: both queries end on every graph, with cycles, with cycles that     *)
(* overlap, with files reachable from themselves, and a call expands no    *)
(* file more than once.                                                    *)
C30_QueriesTerminate ==
    /\ [](QueryUnderWay =>
            \A i, j \in DOMAIN calls.expanded :
                calls.expanded[i] = calls.expanded[j] => i = j)
    /\ (QueryUnderWay ~> ~QueryUnderWay)

C30_Witness ==
    /\ QueryUnderWay
    /\ calls.at = "find_cycle"
    /\ Len(calls.expanded) = 3
    /\ \A f \in RootFiles :
          /\ Has(dependency_graph, f)
          /\ Cardinality(Get(dependency_graph, f)) = 2

====
